---------------------------- MODULE Spec2Model ----------------------------
(***************************************************************************)
(* Model of the structural document-editing engine of the Google Workspace *)
(* MCP server (src/src/services/DocumentService.ts, the class that starts  *)
(* at line 493: the current DocumentService).                              *)
(*                                                                         *)
(* The document held by the backend is a flat sequence of one-character    *)
(* tokens; the token at position i of the sequence is the character at     *)
(* document index i (indices are 1-based, as in the Docs API).  A table    *)
(* occupies one index for its start, one per row start, one per cell       *)
(* start and one for its end; every paragraph ends with a newline.  The    *)
(* structural tree that documents.get returns (startIndex/endIndex of      *)
(* paragraphs, tables, rows, cells, text runs) is computed from the flat   *)
(* sequence, so every insertion or deletion shifts the indices behind it.  *)
(*                                                                         *)
(* Beside the document service the module holds the CallTool handler of    *)
(* src/src/index.ts with the lazy initialisation of the services, the      *)
(* authentication service (src/unnamed/part_008, GoogleAuthService) and    *)
(* the path check of src/src/utils/DriveUploadHelper.ts.  Each part has a  *)
(* specification of its own: Spec, SpecConcurrent, SpecFailures,           *)
(* SpecRepeat, SpecCellScan, SpecUpload and SpecAuth.                      *)
(***************************************************************************)
EXTENDS Integers, Sequences, FiniteSets, TLC

VARIABLES
    doc,                 \* the backend's document: a sequence of tokens
    pc,                  \* where the request stands
    req,                 \* the tool call being served
    calls,               \* the backend calls the request has made, in order
    requests,            \* updateDocument: the batch built from the snapshot
    tableStart,          \* startIndex of `table` found in step 3 (0: none)
    cellInserts,         \* cellInserts after the sort (step 4)
    formattingRequests,  \* formattingRequests built in step 6
    error,               \* the Error thrown to the caller: <<message, cause>> (<<>>: none)
    failedAttempts,      \* the failures of the earlier attempts at the request
    other,               \* a second request in flight on the same document
    result,              \* what the CallTool handler returned to the transport
    completed,           \* the documents the completed runs of updateDocument left
    cellScan,            \* the visit of lines 784-806 applied to a table on its own
    upload,              \* a call of DriveUploadHelper.uploadImageAndGetPublicUrl
    oAuth2Client,        \* GoogleAuthService.oAuth2Client (0: null)
    clients,             \* the OAuth2 clients created so far, each with its credentials
    services,            \* documentService, sheetService, slideService of the server
    handlers,            \* the CallTool handlers in flight, each at its await
    files                \* credentials.json and token.json on disk

\* the state of the document service and of the request it serves
docVars == <<doc, pc, req, calls, requests, tableStart, cellInserts, formattingRequests, error,
             failedAttempts, other, result>>

\* the state of the authentication service and of the server's lazy initialisation
authVars == <<oAuth2Client, clients, services, handlers, files>>

vars == <<docVars, completed, cellScan, upload, authVars>>

-----------------------------------------------------------------------------
(* Bounds of the model. *)

MaxRows == 2
MaxCols == 2
MaxDataRows == 2
MaxDataCols == 3
MaxRetries == 1
MaxHandlers == 3
MaxRepeats == 1
MaxSegments == 3

-----------------------------------------------------------------------------
(* Tokens. *)

NL == "\n"
TableStart == "<table>"
RowStart == "<row>"
CellStart == "<cell>"
TableEnd == "</table>"
Markers == {TableStart, RowStart, CellStart, TableEnd}

Max(a, b) == IF a >= b THEN a ELSE b
Min(a, b) == IF a <= b THEN a ELSE b

RECURSIVE Flatten(_)
Flatten(ss) == IF ss = <<>> THEN <<>> ELSE Head(ss) \o Flatten(Tail(ss))

RECURSIVE Repeat(_, _)
Repeat(s, n) == IF n <= 0 THEN <<>> ELSE s \o Repeat(s, n - 1)

-----------------------------------------------------------------------------
(* The structural tree of a document (the response of documents.get). *)

RECURSIVE MatchFrom(_, _, _)
MatchFrom(d, j, depth) ==
    IF d[j] = TableStart THEN MatchFrom(d, j + 1, depth + 1)
    ELSE IF d[j] = TableEnd
         THEN (IF depth = 1 THEN j ELSE MatchFrom(d, j + 1, depth - 1))
         ELSE MatchFrom(d, j + 1, depth)

\* endIndex (exclusive) of the table that starts at i
TableEndIndex(d, i) == MatchFrom(d, i, 0) + 1

RECURSIVE NewlineFrom(_, _)
NewlineFrom(d, j) == IF d[j] = NL THEN j ELSE NewlineFrom(d, j + 1)

\* first position at or after j, outside nested tables, that holds a token of `stops`
RECURSIVE StopFrom(_, _, _)
StopFrom(d, j, stops) ==
    IF d[j] \in stops THEN j
    ELSE IF d[j] = TableStart THEN StopFrom(d, TableEndIndex(d, j), stops)
    ELSE StopFrom(d, j + 1, stops)

RECURSIVE Elements(_, _, _)
RECURSIVE TableCells(_, _, _)
RECURSIVE TableRows(_, _, _)

\* the cells of a row: from the CellStart at i up to `to` (exclusive)
TableCells(d, i, to) ==
    IF i >= to THEN <<>>
    ELSE LET e == StopFrom(d, i + 1, {CellStart, RowStart, TableEnd})
         IN  <<[startIndex |-> i, endIndex |-> e,
                content |-> Elements(d, i + 1, e)]>> \o TableCells(d, e, to)

\* the rows of a table: from the RowStart at i up to `to` (exclusive)
TableRows(d, i, to) ==
    IF i >= to THEN <<>>
    ELSE LET e == StopFrom(d, i + 1, {RowStart, TableEnd})
         IN  <<[startIndex |-> i, endIndex |-> e,
                tableCells |-> TableCells(d, i + 1, e)]>> \o TableRows(d, e, to)

\* the structural elements in [from, to): paragraphs (one text run each) and tables
Elements(d, from, to) ==
    IF from >= to THEN <<>>
    ELSE IF d[from] = TableStart
         THEN LET e == TableEndIndex(d, from)
              IN  <<[kind |-> "table", startIndex |-> from, endIndex |-> e,
                     tableRows |-> TableRows(d, from + 1, e - 1)]>>
                  \o Elements(d, e, to)
         ELSE LET e == NewlineFrom(d, from) + 1
              IN  <<[kind |-> "paragraph", startIndex |-> from, endIndex |-> e,
                     elements |-> <<[startIndex |-> from, endIndex |-> e,
                                     content |-> SubSeq(d, from, e - 1)]>>]>>
                  \o Elements(d, e, to)

\* doc.data.body?.content || []
BodyContent(d) == Elements(d, 1, Len(d) + 1)


-----------------------------------------------------------------------------
(* The backend: documents.batchUpdate applies the requests of one batch in  *)
(* order, each against the document the previous one left, and applies all  *)
(* of them or none.                                                         *)

InsertAt(d, i, s) == SubSeq(d, 1, i - 1) \o s \o SubSeq(d, i, Len(d))

\* an index inside the bounds of an existing paragraph
InParagraph(d, i) == i \in 1..Len(d) /\ d[i] \notin Markers

NewTable(rows, columns) ==
    <<TableStart>>
    \o Repeat(<<RowStart>> \o Repeat(<<CellStart, NL>>, columns), rows)
    \o <<TableEnd>>

\* the tokens of [s, e) hold whole tables only
RECURSIVE Balanced(_, _, _, _)
Balanced(d, j, e, depth) ==
    IF j >= e THEN depth = 0
    ELSE IF d[j] = TableStart THEN Balanced(d, j + 1, e, depth + 1)
    ELSE IF d[j] = TableEnd THEN depth > 0 /\ Balanced(d, j + 1, e, depth - 1)
    ELSE IF d[j] \in {RowStart, CellStart} THEN depth > 0 /\ Balanced(d, j + 1, e, depth)
    ELSE Balanced(d, j + 1, e, depth)

\* a document the backend can hold: it ends with a paragraph, every table is
\* whole, lies between two paragraphs and holds rows of cells that start with
\* a paragraph
WellFormed(d) ==
    /\ Len(d) >= 1 /\ d[Len(d)] = NL /\ d[1] \notin Markers
    /\ Balanced(d, 1, Len(d) + 1, 0)
    /\ \A i \in 2..(Len(d) - 1) :
         /\ d[i] = TableStart => d[i - 1] = NL /\ d[i + 1] = RowStart
         /\ d[i] = RowStart => d[i - 1] \in {TableStart, NL} /\ d[i + 1] = CellStart
         /\ d[i] = CellStart => d[i - 1] \in {RowStart, NL} /\ d[i + 1] \notin Markers
         /\ d[i] = TableEnd => d[i - 1] = NL /\ d[i + 1] \notin Markers

ValidDelete(d, s, e) ==
    /\ 1 <= s /\ s < e /\ e <= Len(d)
    /\ WellFormed(SubSeq(d, 1, s - 1) \o SubSeq(d, e, Len(d)))

ValidCell(d, ts, rowIndex, columnIndex) ==
    /\ ts \in 1..Len(d) /\ d[ts] = TableStart
    /\ LET rws == TableRows(d, ts + 1, TableEndIndex(d, ts) - 1)
       IN  /\ rowIndex + 1 \in 1..Len(rws)
           /\ columnIndex + 1 \in 1..Len(rws[rowIndex + 1].tableCells)

ValidRange(d, s, e) == 1 <= s /\ s < e /\ e <= Len(d) + 1

ApplyRequest(d, r) ==
    CASE r.type = "insertText" ->
           IF InParagraph(d, r.index) /\ Len(r.text) > 0
           THEN [ok |-> TRUE, doc |-> InsertAt(d, r.index, r.text)]
           ELSE [ok |-> FALSE, doc |-> d]
      [] r.type = "insertTable" ->
           IF InParagraph(d, r.index) /\ r.rows >= 1 /\ r.columns >= 1
           THEN [ok |-> TRUE,
                 doc |-> InsertAt(d, r.index, <<NL>> \o NewTable(r.rows, r.columns))]
           ELSE [ok |-> FALSE, doc |-> d]
      [] r.type = "deleteContentRange" ->
           IF ValidDelete(d, r.startIndex, r.endIndex)
           THEN [ok |-> TRUE,
                 doc |-> SubSeq(d, 1, r.startIndex - 1) \o SubSeq(d, r.endIndex, Len(d))]
           ELSE [ok |-> FALSE, doc |-> d]
      [] r.type = "updateTableCellStyle" ->
           [ok |-> ValidCell(d, r.tableStartIndex, r.rowIndex, r.columnIndex), doc |-> d]
      [] r.type \in {"updateParagraphStyle", "updateTextStyle"} ->
           [ok |-> ValidRange(d, r.startIndex, r.endIndex), doc |-> d]

RECURSIVE ApplyAll(_, _)
ApplyAll(d, batch) ==
    IF batch = <<>> THEN [ok |-> TRUE, doc |-> d]
    ELSE LET one == ApplyRequest(d, Head(batch))
         IN  IF one.ok THEN ApplyAll(one.doc, Tail(batch)) ELSE one

\* documents.batchUpdate: all of the batch or nothing
BatchUpdate(d, batch) ==
    LET all == ApplyAll(d, batch)
    IN  IF all.ok THEN all ELSE [ok |-> FALSE, doc |-> d]

GetCall(d) == [call |-> "get", snapshot |-> d]
BatchCall(batch, ok) == [call |-> "batchUpdate", requests |-> batch, ok |-> ok]

-----------------------------------------------------------------------------
(* The edit requests the service builds. *)

InsertText(index, text) == [type |-> "insertText", index |-> index, text |-> text]
DeleteContentRange(s, e) == [type |-> "deleteContentRange", startIndex |-> s, endIndex |-> e]
InsertTableAt(index, rows, columns) ==
    [type |-> "insertTable", index |-> index, rows |-> rows, columns |-> columns]
UpdateTableCellStyle(style, ts, rowIndex, columnIndex) ==
    [type |-> "updateTableCellStyle", style |-> style, tableStartIndex |-> ts,
     rowIndex |-> rowIndex, columnIndex |-> columnIndex, rowSpan |-> 1, columnSpan |-> 1]
UpdateParagraphStyle(s, e) ==
    [type |-> "updateParagraphStyle", startIndex |-> s, endIndex |-> e, alignment |-> "CENTER"]
UpdateTextStyleBold(s, e) ==
    [type |-> "updateTextStyle", startIndex |-> s, endIndex |-> e, bold |-> TRUE]

-----------------------------------------------------------------------------
(* updateDocument (replaceDocument): lines 565-609. *)

\* the variant of line 87: the endIndex of the FIRST element
contentLengthOfFirst(body) == IF Len(body) = 0 THEN 1 ELSE body[1].endIndex

\* lines 572-573: lastElement?.endIndex || 1
documentEndIndex(body) == IF Len(body) = 0 THEN 1 ELSE body[Len(body)].endIndex

\* the delete guard of line 579 taken one too low: documentEndIndex >= 2
updateDocumentRequestsFromTwo(body, text) ==
    (IF documentEndIndex(body) >= 2
     THEN <<DeleteContentRange(1, documentEndIndex(body) - 1)>>
     ELSE <<>>)
    \o <<InsertText(1, text)>>

\* the text inserted in front of what the document holds, nothing deleted
updateDocumentRequestsInsertOnly(body, text) == <<InsertText(1, text)>>

\* lines 575-598
updateDocumentRequests(body, text) ==
    (IF documentEndIndex(body) > 2
     THEN <<DeleteContentRange(1, documentEndIndex(body) - 1)>>
     ELSE <<>>)
    \o <<InsertText(1, text)>>

\* readDocument, lines 540-554: the text runs of the top-level paragraphs
readDocument(d) ==
    LET content == BodyContent(d)
    IN  Flatten([k \in 1..Len(content) |->
            IF content[k].kind = "paragraph"
            THEN Flatten([j \in 1..Len(content[k].elements) |->
                             content[k].elements[j].content])
            ELSE <<>>])

-----------------------------------------------------------------------------
(* insertLink (lines 986-1030) and appendText (lines 1037-1061). *)

UpdateTextStyleLink(s, e, url) ==
    [type |-> "updateTextStyle", startIndex |-> s, endIndex |-> e, link |-> url]

\* the end of the link taken as the index of its last character
linkEndIndexOfLastChar(index, text) == index + Len(text) - 1

\* line 993: index + text.length
linkEndIndex(index, text) == index + Len(text)

\* lines 999-1023
insertLinkRequests(index, text, url) ==
    <<InsertText(index, text), UpdateTextStyleLink(index, linkEndIndex(index, text), url)>>

\* the end index of the document itself, behind the final newline
appendEndIndexBehindNewline(body) == IF Len(body) = 0 THEN 2 ELSE body[Len(body)].endIndex

\* line 1043: (lastElement?.endIndex || 2) - 1
appendEndIndex(body) == (IF Len(body) = 0 THEN 2 ELSE body[Len(body)].endIndex) - 1

\* lines 1048-1055
appendTextRequests(body, text) == <<InsertText(appendEndIndex(body), text)>>

-----------------------------------------------------------------------------
(* insertTable: lines 720-976. *)

\* the table placed at the caller's index itself (the variant of line 249)
tableIndexAtIndex(index) == index

\* line 746: const tableIndex = index + 1
tableIndex(index) == index + 1

\* lines 734-741: the requests of the first batchUpdate
newlineRequests(index) == <<InsertText(index, <<NL>>)>>

\* lines 750-758: the requests of the second batchUpdate
tableRequests(index, rows, columns) == <<InsertTableAt(tableIndex(index), rows, columns)>>

\* lines 767-773 and 831-837: the first top-level table at or after tableIndex
\* (0: none)
RECURSIVE FindTableFrom(_, _, _)
FindTableFrom(body, k, notBefore) ==
    IF k > Len(body) THEN 0
    ELSE IF body[k].kind = "table" /\ body[k].startIndex >= notBefore THEN k
    ELSE FindTableFrom(body, k + 1, notBefore)

FindTable(body, notBefore) == FindTableFrom(body, 1, notBefore)

\* lines 793-803: the first paragraph of the cell's content (0: none)
RECURSIVE FirstParagraphFrom(_, _)
FirstParagraphFrom(content, k) ==
    IF k > Len(content) THEN 0
    ELSE IF content[k].kind = "paragraph" THEN k
    ELSE FirstParagraphFrom(content, k + 1)

\* every entry of the data taken, the empty ones too
hasContentAlways(cellContent) == TRUE

\* line 792: cellContent && cellContent.length > 0
hasContent(cellContent) == Len(cellContent) > 0

\* the cell inserts placed at the newline in front of the table instead of at
\* the first paragraph of each cell
collectCellInsertsBeforeTable(table, data, headerRow) ==
    LET tableRows == table.tableRows
        cellOf(rowIdx, colIdx) ==
            LET cellContent == data[rowIdx + 1][colIdx + 1]
            IN  IF Len(cellContent) > 0
                THEN <<[index |-> table.startIndex - 1, text |-> cellContent,
                        isHeader |-> headerRow /\ rowIdx = 0]>>
                ELSE <<>>
        rowOf(rowIdx) ==
            LET n == Min(Len(tableRows[rowIdx + 1].tableCells), Len(data[rowIdx + 1]))
            IN  Flatten([c \in 1..n |-> cellOf(rowIdx, c - 1)])
    IN  Flatten([r \in 1..Min(Len(tableRows), Len(data)) |-> rowOf(r - 1)])

\* lines 781-806: the cell inserts, in the row-major order of the visit
collectCellInserts(table, data, headerRow) ==
    LET tableRows == table.tableRows
        cellOf(rowIdx, colIdx) ==
            LET cell == tableRows[rowIdx + 1].tableCells[colIdx + 1]
                cellContent == data[rowIdx + 1][colIdx + 1]
                p == FirstParagraphFrom(cell.content, 1)
            IN  IF hasContent(cellContent) /\ p > 0
                THEN <<[index |-> cell.content[p].startIndex, text |-> cellContent,
                        isHeader |-> headerRow /\ rowIdx = 0]>>
                ELSE <<>>
        rowOf(rowIdx) ==
            LET n == Min(Len(tableRows[rowIdx + 1].tableCells), Len(data[rowIdx + 1]))
            IN  Flatten([c \in 1..n |-> cellOf(rowIdx, c - 1)])
    IN  Flatten([r \in 1..Min(Len(tableRows), Len(data)) |-> rowOf(r - 1)])

\* x placed behind every element of the descending sequence s whose index is
\* not smaller (a stable sort keeps the order of equal keys)
RECURSIVE InsertDescending(_, _)
InsertDescending(x, s) ==
    IF s = <<>> THEN <<x>>
    ELSE IF Head(s).index >= x.index THEN <<Head(s)>> \o InsertDescending(x, Tail(s))
    ELSE <<x>> \o s

\* the row-major order left as it is
unsortedCellInserts(s) == s

\* line 809: cellInserts.sort((a, b) => b.index - a.index)
RECURSIVE sortCellInserts(_)
sortCellInserts(s) ==
    IF s = <<>> THEN <<>>
    ELSE InsertDescending(s[Len(s)], sortCellInserts(SubSeq(s, 1, Len(s) - 1)))

\* lines 813-818
insertRequests(inserts) == [k \in 1..Len(inserts) |-> InsertText(inserts[k].index, inserts[k].text)]

\* every text run taken for text, the blank ones too
TrimmedNonEmptyAlways(content) == TRUE

\* line 922: content.trim().length > 0
TrimmedNonEmpty(content) == \E k \in 1..Len(content) : content[k] \notin {NL, " "}

\* lines 862-885: one border request per cell, row by row
borderRequests(tableStartIndex, numRows, numCols) ==
    Flatten([r \in 1..numRows |->
        [c \in 1..numCols |-> UpdateTableCellStyle("border", tableStartIndex, r - 1, c - 1)]])

\* lines 896-939: the requests for one paragraph of a header cell
headerParagraphRequests(cellElement) ==
    IF cellElement.kind # "paragraph" THEN <<>>
    ELSE <<UpdateParagraphStyle(cellElement.startIndex, cellElement.endIndex)>>
         \o Flatten([k \in 1..Len(cellElement.elements) |->
               LET elem == cellElement.elements[k]
               IN  IF TrimmedNonEmpty(elem.content)
                   THEN <<UpdateTextStyleBold(elem.startIndex, elem.endIndex)>>
                   ELSE <<>>])

\* lines 888-964
headerRequests(updatedTable, headerRow) ==
    IF headerRow /\ Len(updatedTable.tableRows) > 0
    THEN LET headerCells == updatedTable.tableRows[1].tableCells
         IN  Flatten([c \in 1..Len(headerCells) |->
                 Flatten([k \in 1..Len(headerCells[c].content) |->
                             headerParagraphRequests(headerCells[c].content[k])])
                 \o <<UpdateTableCellStyle("background", updatedTable.startIndex, 0, c - 1)>>])
    ELSE <<>>

\* lines 844-964
buildFormattingRequests(updatedTable, columns, headerRow) ==
    LET updatedTableRows == updatedTable.tableRows
        numRows == Len(updatedTableRows)
        numCols == IF numRows > 0 /\ Len(updatedTableRows[1].tableCells) > 0
                   THEN Len(updatedTableRows[1].tableCells)
                   ELSE columns
    IN  borderRequests(updatedTable.startIndex, numRows, numCols)
        \o headerRequests(updatedTable, headerRow)

-----------------------------------------------------------------------------
(* The documents a request may find and the arguments of the tool calls. *)

Para(text) == text \o <<NL>>

\* a rows x columns table whose cells each hold one paragraph `text`
TableOf(rows, columns, text) ==
    <<TableStart>>
    \o Repeat(<<RowStart>> \o Repeat(<<CellStart>> \o Para(text), columns), rows)
    \o <<TableEnd>>

ParaTexts == {<<>>, <<"a">>}
InitTables == {TableOf(1, 1, <<>>), TableOf(1, 2, <<"b">>)}

InitDocs ==
    {Para(p) : p \in ParaTexts}
    \cup {Para(<<"a">>) \o Para(q) : q \in ParaTexts}
    \cup {Para(p) \o t \o Para(q) : p \in ParaTexts, t \in InitTables, q \in ParaTexts}
    \cup {Para(<<>>) \o t \o Para(<<>>) \o u \o Para(<<>>) : t \in InitTables, u \in InitTables}

NewTexts == {<<"x">>, <<"x", "y">>, <<"x", NL, "y">>}
Urls == {"https://example.com"}

\* the display texts tried for insertLink: text is any string, the empty one included
LinkTexts == NewTexts \cup {<<>>}

RowChar == <<"p", "q", "r", "s", "t">>
ColChar == <<"u", "v", "w", "z", "k">>
DataPatterns == {"text", "mixed", "blank", "ragged"}

\* the entry of row r, column c (from 0) of the data of a pattern
CellText(pattern, r, c) ==
    CASE pattern = "mixed" -> IF (r + c) % 2 = 1 THEN <<>> ELSE <<RowChar[r + 1]>>
      [] pattern = "blank" -> IF c = 0 THEN <<" ">> ELSE <<ColChar[c + 1], NL, " ">>
      [] OTHER -> <<RowChar[r + 1], ColChar[c + 1]>>

\* row-major data of nr rows; the rows of "ragged" data shrink by one entry a row
DataOf(pattern, nr, nc) ==
    [r \in 1..nr |->
        [c \in 1..(IF pattern = "ragged" THEN Max(nc - (r - 1), 0) ELSE nc) |->
            CellText(pattern, r - 1, c - 1)]]

DataSets ==
    {DataOf(pattern, nr, nc) :
        pattern \in DataPatterns, nr \in 0..MaxDataRows, nc \in 0..MaxDataCols}

-----------------------------------------------------------------------------
(* The requests. *)

\* GoogleWorkspaceMCPServer and GoogleAuthService after construction
\* (index.ts lines 29-31, part_008 line 26): no client, no service, no call
Handlers == 1..MaxHandlers
NoServices == [documentService |-> 0, sheetService |-> 0, slideService |-> 0]
IdleHandler == [pc |-> "idle", authClient |-> 0, credentialed |-> FALSE, built |-> FALSE,
                call |-> <<>>, error |-> ""]

ServerConstructed ==
    /\ oAuth2Client = 0
    /\ clients = <<>>
    /\ services = NoServices
    /\ handlers = [h \in Handlers |-> IdleHandler]

\* the parts of the server the requests on a document do not touch
OtherPartsIdle ==
    /\ completed = <<>>
    /\ cellScan = [pc |-> "idle"]
    /\ upload = [pc |-> "idle"]
    /\ ServerConstructed
    /\ files = [credentials |-> TRUE, token |-> TRUE]

Init ==
    /\ doc \in InitDocs
    /\ pc = "idle"
    /\ req = [op |-> "none"]
    /\ calls = <<>>
    /\ requests = <<>>
    /\ tableStart = 0
    /\ cellInserts = <<>>
    /\ formattingRequests = <<>>
    /\ error = <<>>
    /\ failedAttempts = <<>>
    /\ other = [pc |-> "idle", requests |-> <<>>, snapshot |-> <<>>, readAfter |-> 0, after |-> 0]
    /\ result = [kind |-> "none"]
    /\ OtherPartsIdle

\* the text of the error the backend answers a rejected batch with
InvalidRequests == "Error: Invalid requests"

\* line 776, as the template of line 974 renders it
TableNotFound == "Error: Failed to find the inserted table in document"

\* a batchUpdate whose rejection is swallowed: the request goes on at `next`
SubmitAndGoOn(batch, next, message) ==
    LET res == BatchUpdate(doc, batch)
    IN  /\ doc' = res.doc
        /\ calls' = Append(calls, BatchCall(batch, res.ok))
        /\ pc' = next
        /\ error' = error

\* a batchUpdate call with `batch`: the backend applies it and the request
\* goes on at `next`, or the backend rejects it and the catch block rethrows
Submit(batch, next, message) ==
    LET res == BatchUpdate(doc, batch)
    IN  /\ doc' = res.doc
        /\ calls' = Append(calls, BatchCall(batch, res.ok))
        /\ pc' = IF res.ok THEN next ELSE "failed"
        /\ error' = IF res.ok THEN error ELSE <<message, InvalidRequests>>

\* updateDocument, lines 568-598: the snapshot is read and the batch is built
UpdateDocumentRead ==
    /\ pc = "idle"
    /\ \E text \in NewTexts :
         /\ req' = [op |-> "updateDocument", text |-> text]
         /\ requests' = updateDocumentRequests(BodyContent(doc), text)
    /\ calls' = Append(calls, GetCall(doc))
    /\ pc' = "updateDocument_submit"
    /\ UNCHANGED <<doc, tableStart, cellInserts, formattingRequests, error>>
    /\ UNCHANGED <<failedAttempts, other, result>>
    /\ UNCHANGED <<completed, cellScan, upload, authVars>>

\* updateDocument, lines 600-605
UpdateDocumentSubmit ==
    /\ pc = "updateDocument_submit"
    /\ Submit(requests, "done", "Failed to update document")
    /\ UNCHANGED <<req, requests, tableStart, cellInserts, formattingRequests>>
    /\ UNCHANGED <<failedAttempts, other, result>>
    /\ UNCHANGED <<completed, cellScan, upload, authVars>>

\* insertTable, lines 731-743: the newline is inserted
InsertTableNewline ==
    /\ pc = "idle"
    /\ \E index \in 1..(Len(doc) + 1), rows \in 1..MaxRows, columns \in 1..MaxCols,
          data \in DataSets, headerRow \in BOOLEAN :
         /\ req' = [op |-> "insertTable", index |-> index, rows |-> rows,
                    columns |-> columns, data |-> data, headerRow |-> headerRow]
         /\ Submit(newlineRequests(index), "insertTable_table", "Failed to insert table")
    /\ UNCHANGED <<requests, tableStart, cellInserts, formattingRequests>>
    /\ UNCHANGED <<failedAttempts, other, result>>
    /\ UNCHANGED <<completed, cellScan, upload, authVars>>

\* insertTable, lines 746-760: the table is inserted behind the newline
InsertTableTable ==
    /\ pc = "insertTable_table"
    /\ Submit(tableRequests(req.index, req.rows, req.columns),
              "insertTable_locate", "Failed to insert table")
    /\ UNCHANGED <<req, requests, tableStart, cellInserts, formattingRequests>>
    /\ UNCHANGED <<failedAttempts, other, result>>
    /\ UNCHANGED <<completed, cellScan, upload, authVars>>

\* the lookup of step 3 without the throw of lines 775-777: a request that
\* finds no table goes on to the formatting
InsertTableLocateNoThrow ==
    /\ pc = "insertTable_locate"
    /\ calls' = Append(calls, GetCall(doc))
    /\ LET body == BodyContent(doc)
           k == FindTable(body, tableIndex(req.index))
       IN  IF k = 0
           THEN /\ pc' = "insertTable_relocate"
                /\ UNCHANGED <<tableStart, cellInserts, error>>
           ELSE LET inserts == sortCellInserts(
                                   collectCellInserts(body[k], req.data, req.headerRow))
                IN  /\ tableStart' = body[k].startIndex
                    /\ cellInserts' = inserts
                    /\ pc' = IF Len(inserts) > 0 THEN "insertTable_cells"
                             ELSE "insertTable_relocate"
                    /\ UNCHANGED error
    /\ UNCHANGED <<doc, req, requests, formattingRequests>>
    /\ UNCHANGED <<failedAttempts, other, result>>
    /\ UNCHANGED <<completed, cellScan, upload, authVars>>

\* insertTable, lines 763-809: the snapshot is read, the table is looked up and
\* the cell inserts are collected and sorted
InsertTableLocate ==
    /\ pc = "insertTable_locate"
    /\ calls' = Append(calls, GetCall(doc))
    /\ LET body == BodyContent(doc)
           k == FindTable(body, tableIndex(req.index))
       IN  IF k = 0
           THEN /\ pc' = "failed"
                /\ error' = <<"Failed to insert table", TableNotFound>>
                /\ UNCHANGED <<tableStart, cellInserts>>
           ELSE LET inserts == sortCellInserts(
                                   collectCellInserts(body[k], req.data, req.headerRow))
                IN  /\ tableStart' = body[k].startIndex
                    /\ cellInserts' = inserts
                    /\ pc' = IF Len(inserts) > 0 THEN "insertTable_cells"
                             ELSE "insertTable_relocate"
                    /\ UNCHANGED error
    /\ UNCHANGED <<doc, req, requests, formattingRequests>>
    /\ UNCHANGED <<failedAttempts, other, result>>
    /\ UNCHANGED <<completed, cellScan, upload, authVars>>

\* the cell texts inserted and the borders sent at once, without the second read
InsertTableCellsNoRefetch ==
    /\ pc = "insertTable_cells"
    /\ Submit(insertRequests(cellInserts), "insertTable_format", "Failed to insert table")
    /\ formattingRequests' = borderRequests(tableStart, req.rows, req.columns)
    /\ UNCHANGED <<req, requests, tableStart, cellInserts>>
    /\ UNCHANGED <<failedAttempts, other, result>>
    /\ UNCHANGED <<completed, cellScan, upload, authVars>>

\* insertTable, lines 812-824: the cell texts are inserted in one batch
InsertTableCells ==
    /\ pc = "insertTable_cells"
    /\ Submit(insertRequests(cellInserts), "insertTable_relocate", "Failed to insert table")
    /\ UNCHANGED <<req, requests, tableStart, cellInserts, formattingRequests>>
    /\ UNCHANGED <<failedAttempts, other, result>>
    /\ UNCHANGED <<completed, cellScan, upload, authVars>>

\* the second lookup with the throw of the first: a table that is missing
\* from the second snapshot fails the request
InsertTableRelocateThrow ==
    /\ pc = "insertTable_relocate"
    /\ calls' = Append(calls, GetCall(doc))
    /\ LET body == BodyContent(doc)
           k == FindTable(body, tableIndex(req.index))
       IN  IF k = 0
           THEN /\ pc' = "failed"
                /\ error' = <<"Failed to insert table", TableNotFound>>
                /\ UNCHANGED formattingRequests
           ELSE LET built == buildFormattingRequests(body[k], req.columns, req.headerRow)
                IN  /\ formattingRequests' = built
                    /\ pc' = IF Len(built) > 0 THEN "insertTable_format" ELSE "done"
                    /\ UNCHANGED error
    /\ UNCHANGED <<doc, req, requests, tableStart, cellInserts>>
    /\ UNCHANGED <<failedAttempts, other, result>>
    /\ UNCHANGED <<completed, cellScan, upload, authVars>>

\* insertTable, lines 827-964: the snapshot is read again, the table is looked up
\* again and the border and header requests are built
InsertTableRelocate ==
    /\ pc = "insertTable_relocate"
    /\ calls' = Append(calls, GetCall(doc))
    /\ LET body == BodyContent(doc)
           k == FindTable(body, tableIndex(req.index))
       IN  IF k = 0
           THEN /\ pc' = "done"
                /\ UNCHANGED formattingRequests
           ELSE LET built == buildFormattingRequests(body[k], req.columns, req.headerRow)
                IN  /\ formattingRequests' = built
                    /\ pc' = IF Len(built) > 0 THEN "insertTable_format" ELSE "done"
    /\ UNCHANGED <<doc, req, requests, tableStart, cellInserts, error>>
    /\ UNCHANGED <<failedAttempts, other, result>>
    /\ UNCHANGED <<completed, cellScan, upload, authVars>>

\* the borders and the header requests submitted as two batches, one after the other
InsertTableFormatInTwoBatches ==
    /\ pc = "insertTable_format"
    /\ LET isBorder(q) == q.type = "updateTableCellStyle" /\ q.style = "border"
           isHeader(q) == ~isBorder(q)
           first == BatchUpdate(doc, SelectSeq(formattingRequests, isBorder))
           second == BatchUpdate(first.doc, SelectSeq(formattingRequests, isHeader))
       IN  /\ doc' = second.doc
           /\ calls' = calls \o <<BatchCall(SelectSeq(formattingRequests, isBorder), first.ok)>>
                          \o (IF first.ok /\ req.headerRow
                              THEN <<BatchCall(SelectSeq(formattingRequests, isHeader), second.ok)>>
                              ELSE <<>>)
           /\ pc' = IF first.ok /\ second.ok THEN "done" ELSE "failed"
           /\ error' = IF first.ok /\ second.ok THEN error ELSE <<"Failed to insert table", InvalidRequests>>
    /\ UNCHANGED <<req, requests, tableStart, cellInserts, formattingRequests>>
    /\ UNCHANGED <<failedAttempts, other, result>>
    /\ UNCHANGED <<completed, cellScan, upload, authVars>>

\* insertTable, lines 967-972
InsertTableFormat ==
    /\ pc = "insertTable_format"
    /\ Submit(formattingRequests, "done", "Failed to insert table")
    /\ UNCHANGED <<req, requests, tableStart, cellInserts, formattingRequests>>
    /\ UNCHANGED <<failedAttempts, other, result>>
    /\ UNCHANGED <<completed, cellScan, upload, authVars>>

\* insertLink, lines 992-1029: one batch, no snapshot read
InsertLink ==
    /\ pc = "idle"
    /\ \E index \in 1..(Len(doc) + 1), text \in LinkTexts, url \in Urls :
         /\ req' = [op |-> "insertLink", index |-> index, text |-> text, url |-> url]
         /\ Submit(insertLinkRequests(index, text, url), "done", "Failed to insert link")
    /\ UNCHANGED <<requests, tableStart, cellInserts, formattingRequests>>
    /\ UNCHANGED <<failedAttempts, other, result>>
    /\ UNCHANGED <<completed, cellScan, upload, authVars>>

\* appendText, lines 1040-1055: the snapshot is read and the batch is built
AppendTextRead ==
    /\ pc = "idle"
    /\ \E text \in NewTexts :
         /\ req' = [op |-> "appendText", text |-> text]
         /\ requests' = appendTextRequests(BodyContent(doc), text)
    /\ calls' = Append(calls, GetCall(doc))
    /\ pc' = "appendText_submit"
    /\ UNCHANGED <<doc, tableStart, cellInserts, formattingRequests, error>>
    /\ UNCHANGED <<failedAttempts, other, result>>
    /\ UNCHANGED <<completed, cellScan, upload, authVars>>

\* appendText, lines 1045-1057
AppendTextSubmit ==
    /\ pc = "appendText_submit"
    /\ Submit(requests, "done", "Failed to append text")
    /\ UNCHANGED <<req, requests, tableStart, cellInserts, formattingRequests>>
    /\ UNCHANGED <<failedAttempts, other, result>>
    /\ UNCHANGED <<completed, cellScan, upload, authVars>>

Next ==
    \/ UpdateDocumentRead
    \/ UpdateDocumentSubmit
    \/ InsertTableNewline
    \/ InsertTableTable
    \/ InsertTableLocate
    \/ InsertTableCells
    \/ InsertTableRelocate
    \/ InsertTableFormat
    \/ InsertLink
    \/ AppendTextRead
    \/ AppendTextSubmit

Spec == Init /\ [][Next]_vars

\* every document the backend holds is well formed
DocWellFormed == WellFormed(doc)

-----------------------------------------------------------------------------
(* The claims. *)

\* the request is an updateDocument whose batch has been submitted
UpdateDocumentSubmitted == req.op = "updateDocument" /\ pc \in {"done", "failed"}

\* the snapshot the n-th backend call read
SnapshotOf(n) == calls[n].snapshot

\* endIndex of the last top-level element of snapshot d
LastEndIndex(d) == BodyContent(d)[Len(BodyContent(d))].endIndex

\* C1: when the last top-level element of the snapshot ends at E > 2,
\* updateDocument reads once and submits exactly one batch, which is
\* [DeleteRange(1, E-1), InsertText(1, text)] with E the endIndex of the LAST
\* top-level element, however many elements the document holds.
C1_ReplaceDeletesToLastEnd ==
    (UpdateDocumentSubmitted /\ LastEndIndex(SnapshotOf(1)) > 2) =>
        /\ Len(calls) = 2
        /\ calls[2].call = "batchUpdate"
        /\ calls[2].requests =
             <<DeleteContentRange(1, LastEndIndex(SnapshotOf(1)) - 1),
               InsertText(1, req.text)>>

\* a replace of a document of several top-level elements, a table among them
C1_Witness ==
    /\ UpdateDocumentSubmitted
    /\ Len(BodyContent(SnapshotOf(1))) >= 3
    /\ \E k \in 1..Len(BodyContent(SnapshotOf(1))) :
           BodyContent(SnapshotOf(1))[k].kind = "table"
    /\ BodyContent(SnapshotOf(1))[1].endIndex < LastEndIndex(SnapshotOf(1))

\* C2: when the end index of the snapshot is <= 2, updateDocument submits
\* exactly one batch, which is [InsertText(1, text)]: no DeleteRange.
C2_EmptyReplaceOnlyInserts ==
    (UpdateDocumentSubmitted /\ LastEndIndex(SnapshotOf(1)) <= 2) =>
        /\ Len(calls) = 2
        /\ calls[2].call = "batchUpdate"
        /\ calls[2].requests = <<InsertText(1, req.text)>>
        /\ \A k \in 1..Len(calls[2].requests) :
               calls[2].requests[k].type # "deleteContentRange"

\* a replace of the empty document (endIndex 2)
C2_Witness ==
    /\ UpdateDocumentSubmitted
    /\ SnapshotOf(1) = <<NL>>
    /\ pc = "done"

\* C3 as stated: after replaceDocument(d, X) a read of the document yields
\* exactly X.
C3_ReadYieldsExactlyX ==
    UpdateDocumentSubmitted => (pc = "done" /\ readDocument(doc) = req.text)

\* C3 as amended: after replaceDocument(d, X), whatever paragraphs and tables
\* the document held, the batch is applied and a read yields X followed by
\* the newline that ends the document; the document holds nothing else.
C3_ReadYieldsXThenNewline ==
    UpdateDocumentSubmitted =>
        /\ pc = "done"
        /\ readDocument(doc) = req.text \o <<NL>>
        /\ doc = req.text \o <<NL>>

\* a replace, applied, of a document that held a table with text in its cells
C3_Witness ==
    /\ UpdateDocumentSubmitted
    /\ pc = "done"
    /\ \E i \in 1..Len(SnapshotOf(1)) : SnapshotOf(1)[i] = TableStart
    /\ \E i \in 1..Len(SnapshotOf(1)) : SnapshotOf(1)[i] = "b"

-----------------------------------------------------------------------------
(* insertTable: the cell texts (C4, C5, C8). *)

\* the first snapshot was read and a table was found in it
TableLocated == req.op = "insertTable" /\ Len(calls) >= 3 /\ tableStart # 0

\* the batch of cell texts was submitted (it is the fourth backend call)
CellsBatchSubmitted == TableLocated /\ Len(calls) >= 4 /\ calls[4].call = "batchUpdate"

\* the rows of the table that starts at ts in document d
RowsAt(d, ts) == TableRows(d, ts + 1, TableEndIndex(d, ts) - 1)

\* the rows of the table found, as the first snapshot shows them
LocatedRows == RowsAt(SnapshotOf(3), tableStart)

\* what the visit of lines 784-806 collects from the first snapshot
CollectedFromSnapshot ==
    collectCellInserts([tableRows |-> LocatedRows], req.data, req.headerRow)

\* C4: the InsertText requests of the cell-text batch are in strictly
\* descending order of index and are the insertions collected in the row-major
\* visit of the snapshot, each once.
C4_CellBatchDescending ==
    CellsBatchSubmitted =>
        LET b == calls[4].requests
        IN  /\ \A k \in 1..Len(b) : b[k].type = "insertText"
            /\ \A k \in 1..(Len(b) - 1) : b[k].index > b[k + 1].index
            /\ Len(b) = Len(CollectedFromSnapshot)
            /\ {<<b[k].index, b[k].text>> : k \in 1..Len(b)}
                 = {<<CollectedFromSnapshot[k].index, CollectedFromSnapshot[k].text>> :
                       k \in 1..Len(CollectedFromSnapshot)}

\* a batch of at least three cell texts, which the visit collected in
\* ascending order of index
C4_Witness ==
    /\ CellsBatchSubmitted
    /\ Len(calls[4].requests) >= 3
    /\ CollectedFromSnapshot[1].index < CollectedFromSnapshot[2].index

\* the table found is a fresh rows x columns table: every cell one empty paragraph
FreshTableLocated ==
    /\ TableLocated
    /\ tableStart + Len(NewTable(req.rows, req.columns)) - 1 <= Len(SnapshotOf(3))
    /\ SubSeq(SnapshotOf(3), tableStart,
              tableStart + Len(NewTable(req.rows, req.columns)) - 1)
         = NewTable(req.rows, req.columns)

\* the entry of the data for row r, column c (from 0); empty when there is none
DataEntry(r, c) ==
    IF r + 1 <= Len(req.data) /\ c + 1 <= Len(req.data[r + 1])
    THEN req.data[r + 1][c + 1]
    ELSE <<>>

\* the text of cell (r, c) of the table at ts in d, without the newline that ends it
CellTextAt(d, ts, r, c) ==
    LET cell == RowsAt(d, ts)[r + 1].tableCells[c + 1]
    IN  SubSeq(d, cell.startIndex + 1, cell.endIndex - 2)

\* C5: for a fresh rows x columns table, the cell-text batch, applied in the
\* emitted order with the indices of the one snapshot, is accepted and leaves
\* data[r][c] in cell (r, c) and nothing else anywhere: the table keeps its
\* shape and the document around it is untouched.
C5_CellTextsLandInTheirCells ==
    (CellsBatchSubmitted /\ FreshTableLocated) =>
        /\ calls[4].ok
        /\ doc[tableStart] = TableStart
        /\ Len(RowsAt(doc, tableStart)) = req.rows
        /\ \A r \in 0..(req.rows - 1) :
             /\ Len(RowsAt(doc, tableStart)[r + 1].tableCells) = req.columns
             /\ \A c \in 0..(req.columns - 1) :
                    CellTextAt(doc, tableStart, r, c) = DataEntry(r, c)
        /\ SubSeq(doc, 1, tableStart - 1) = SubSeq(SnapshotOf(3), 1, tableStart - 1)
        /\ SubSeq(doc, TableEndIndex(doc, tableStart), Len(doc))
             = SubSeq(SnapshotOf(3), TableEndIndex(SnapshotOf(3), tableStart),
                      Len(SnapshotOf(3)))

\* four texts of two characters inserted into a fresh 2 x 2 table
C5_Witness ==
    /\ CellsBatchSubmitted /\ FreshTableLocated
    /\ Len(calls[4].requests) = 4
    /\ \A k \in 1..4 : Len(calls[4].requests[k].text) = 2
    /\ pc = "done"

\* the data holds an entry for row r, column c (from 0)
EntryExists(r, c) == r + 1 <= Len(req.data) /\ c + 1 <= Len(req.data[r + 1])

\* the cell inserts aimed at cell (r, c) of the table found: at the start of
\* the first paragraph of the cell
InsertsInto(r, c) ==
    {k \in 1..Len(cellInserts) :
        cellInserts[k].index = LocatedRows[r + 1].tableCells[c + 1].startIndex + 1}

\* C8 as stated: one InsertText for each (row, col) with row < rows and
\* col < columns for which the data holds an entry, and none for any other.
C8_OneInsertPerEntry ==
    TableLocated =>
        /\ Len(LocatedRows) = req.rows
        /\ \A r \in 0..(req.rows - 1) :
             /\ Len(LocatedRows[r + 1].tableCells) = req.columns
             /\ \A c \in 0..(req.columns - 1) :
                    Cardinality(InsertsInto(r, c)) = IF EntryExists(r, c) THEN 1 ELSE 0
        /\ Len(cellInserts) =
             Cardinality({rc \in (0..(req.rows - 1)) \X (0..(req.columns - 1)) :
                             EntryExists(rc[1], rc[2])})

\* the positions of the table found for which the data holds a non-empty entry
FilledPositions ==
    {rc \in (0..(Len(LocatedRows) - 1)) \X (0..Len(SnapshotOf(3))) :
        /\ rc[2] < Len(LocatedRows[rc[1] + 1].tableCells)
        /\ EntryExists(rc[1], rc[2])
        /\ req.data[rc[1] + 1][rc[2] + 1] # <<>>}

\* C8 as amended: one InsertText, with the entry as its text, for each cell
\* (row, col) of the table found (rows x columns cells when it is the table
\* of phase 1) for which the data holds a NON-EMPTY entry, and none for any
\* other position: entries beyond the table are ignored, cells without an
\* entry or with an empty one receive no insertion.
C8_OneInsertPerNonEmptyEntry ==
    TableLocated =>
        /\ tableStart = req.index + 2 =>
             /\ Len(LocatedRows) = req.rows
             /\ \A r \in 1..req.rows : Len(LocatedRows[r].tableCells) = req.columns
        /\ \A r \in 0..(Len(LocatedRows) - 1) :
             \A c \in 0..(Len(LocatedRows[r + 1].tableCells) - 1) :
                IF <<r, c>> \in FilledPositions
                THEN /\ Cardinality(InsertsInto(r, c)) = 1
                     /\ \A k \in InsertsInto(r, c) : cellInserts[k].text = req.data[r + 1][c + 1]
                ELSE InsertsInto(r, c) = {}
        /\ Len(cellInserts) = Cardinality(FilledPositions)

\* the table of phase 1 found; the data has an entry beyond the table and an
\* empty entry inside it, and a cell of the table has no entry at all
C8_Witness ==
    /\ TableLocated /\ tableStart = req.index + 2
    /\ \E r \in 0..MaxDataRows, c \in 0..MaxDataCols :
           EntryExists(r, c) /\ (r >= req.rows \/ c >= req.columns)
    /\ \E r \in 0..(req.rows - 1), c \in 0..(req.columns - 1) : ~EntryExists(r, c)
    /\ \E r \in 0..(req.rows - 1), c \in 0..(req.columns - 1) :
           EntryExists(r, c) /\ req.data[r + 1][c + 1] = <<>>
    /\ Len(cellInserts) >= 1

-----------------------------------------------------------------------------
(* insertTable: the sequence of backend calls (C6, C7). *)

\* C6 as stated: phase 1 is ONE batch, [InsertText(index, newline),
\* InsertTable(index + 1, rows, columns)].
C6_PhaseOneIsOneBatch ==
    (req.op = "insertTable" /\ pc = "insertTable_locate") =>
        calls = <<BatchCall(<<InsertText(req.index, <<NL>>),
                              InsertTableAt(req.index + 1, req.rows, req.columns)>>, TRUE)>>

\* C6 as amended: phase 1 is TWO batches submitted one after the other, first
\* [InsertText(index, newline)], then [InsertTable(index + 1, rows, columns)].
C6_PhaseOneIsTwoBatches ==
    req.op = "insertTable" =>
        /\ Len(calls) >= 1 =>
             /\ calls[1].call = "batchUpdate"
             /\ calls[1].requests = <<InsertText(req.index, <<NL>>)>>
        /\ Len(calls) >= 2 =>
             /\ calls[1].ok
             /\ calls[2].call = "batchUpdate"
             /\ calls[2].requests = <<InsertTableAt(req.index + 1, req.rows, req.columns)>>
        /\ pc = "insertTable_locate" => (Len(calls) = 2 /\ calls[2].ok)

\* phase 1 of an insertTable is over: the table is in the document
C6_Witness ==
    /\ req.op = "insertTable"
    /\ pc = "insertTable_locate"
    /\ doc[req.index + 2] = TableStart

\* the k-th call is a batch that was applied and inserted content
InsertsContent(k) ==
    /\ calls[k].call = "batchUpdate"
    /\ calls[k].ok
    /\ \E j \in 1..Len(calls[k].requests) :
           calls[k].requests[j].type \in {"insertText", "insertTable"}

\* C7 as stated: no batch of an insertTable follows a batch that inserted
\* content without a snapshot read between the two.
C7_ReadBetweenAnyTwoBatches ==
    req.op = "insertTable" =>
        \A k \in 1..(Len(calls) - 1) :
            InsertsContent(k) => calls[k + 1].call = "get"

\* C7 as amended: the table batch of phase 1 follows the newline batch with no
\* read between them (its index is the caller's index + 1, taken from no
\* snapshot); every other batch of the request is submitted right after a
\* snapshot read, so no two of the later batches are back to back.
C7_ReadBeforeEveryLaterBatch ==
    req.op = "insertTable" =>
        /\ \A k \in 2..(Len(calls) - 1) :
               InsertsContent(k) => calls[k + 1].call = "get"
        /\ \A k \in 3..Len(calls) :
               calls[k].call = "batchUpdate" => calls[k - 1].call = "get"
        /\ Len(calls) >= 2 => (calls[1].call = "batchUpdate" /\ calls[2].call = "batchUpdate")

\* an insertTable that submitted all its batches: newline, table, cell texts
\* and formatting, with a read before each of the last two
C7_Witness ==
    /\ req.op = "insertTable"
    /\ pc = "done"
    /\ Len(calls) = 6
    /\ calls[4].call = "batchUpdate" /\ calls[6].call = "batchUpdate"

-----------------------------------------------------------------------------
(* insertTable: borders and header (C9, C10). *)

\* the second lookup found a table and the formatting requests were built
FormattingBuilt ==
    /\ req.op = "insertTable"
    /\ pc \in {"insertTable_format", "done", "failed"}
    /\ formattingRequests # <<>>

IsBorder(q) == q.type = "updateTableCellStyle" /\ q.style = "border"
IsHeaderRequest(q) == ~IsBorder(q)

BorderRequests == SelectSeq(formattingRequests, IsBorder)
HeaderRequests == SelectSeq(formattingRequests, IsHeaderRequest)

\* C9: once the cell texts are in, every cell of the table insertTable
\* inserted (it starts at index + 2) gets exactly one border request, rows x
\* columns in all, each addressed by (table start, row, col) with spans 1 and
\* by no character range.
C9_OneBorderPerCell ==
    FormattingBuilt =>
        /\ Len(BorderRequests) = req.rows * req.columns
        /\ \A r \in 0..(req.rows - 1), c \in 0..(req.columns - 1) :
               Cardinality({k \in 1..Len(BorderRequests) :
                               /\ BorderRequests[k].rowIndex = r
                               /\ BorderRequests[k].columnIndex = c}) = 1
        /\ \A k \in 1..Len(BorderRequests) :
               /\ BorderRequests[k].tableStartIndex = req.index + 2
               /\ BorderRequests[k].rowSpan = 1 /\ BorderRequests[k].columnSpan = 1
               /\ DOMAIN BorderRequests[k] \cap {"startIndex", "endIndex", "range"} = {}

\* the snapshot the second lookup read: the last read of the request
RelocateSnapshot == IF calls[4].call = "get" THEN SnapshotOf(4) ELSE SnapshotOf(5)

\* the table the formatting requests address
StyledTableStart == formattingRequests[1].tableStartIndex

\* the cells of row 0 of that table, as the second snapshot shows them
StyledHeaderCells == RowsAt(RelocateSnapshot, StyledTableStart)[1].tableCells

\* the paragraphs of a cell
ParagraphsOf(cell) ==
    {cell.content[k] : k \in {j \in 1..Len(cell.content) : cell.content[j].kind = "paragraph"}}

\* the paragraph holds a character that is neither a blank nor a newline
HasText(p) ==
    \E i \in p.startIndex..(p.endIndex - 1) : RelocateSnapshot[i] \notin {NL, " "}

Within(q, cell) == cell.startIndex < q.startIndex /\ q.endIndex <= cell.endIndex

\* C10 as stated: with headerRow, every cell of row 0 gets a bold
\* UpdateTextStyle, a center UpdateParagraphStyle and a gray UpdateTableCellStyle,
\* every header range lies inside a row-0 cell and every header cell style has
\* rowIndex 0; without headerRow there is no header request.
C10_HeaderBoldCenterGrayEachCell ==
    FormattingBuilt =>
        IF req.headerRow
        THEN /\ \A c \in 1..Len(StyledHeaderCells) :
                  /\ \E k \in 1..Len(HeaderRequests) :
                        /\ HeaderRequests[k].type = "updateTextStyle"
                        /\ Within(HeaderRequests[k], StyledHeaderCells[c])
                  /\ \E k \in 1..Len(HeaderRequests) :
                        /\ HeaderRequests[k].type = "updateParagraphStyle"
                        /\ Within(HeaderRequests[k], StyledHeaderCells[c])
                  /\ \E k \in 1..Len(HeaderRequests) :
                        /\ HeaderRequests[k].type = "updateTableCellStyle"
                        /\ HeaderRequests[k].columnIndex = c - 1
             /\ \A k \in 1..Len(HeaderRequests) :
                  IF HeaderRequests[k].type = "updateTableCellStyle"
                  THEN HeaderRequests[k].rowIndex = 0
                  ELSE \E c \in 1..Len(StyledHeaderCells) :
                          Within(HeaderRequests[k], StyledHeaderCells[c])
        ELSE HeaderRequests = <<>>

\* the header requests the second snapshot calls for: per cell of row 0 a
\* center request for each paragraph, a bold request for each paragraph that
\* holds text, and one gray background
ExpectedHeaderRequests ==
    UNION {
        {UpdateParagraphStyle(p.startIndex, p.endIndex) :
            p \in ParagraphsOf(StyledHeaderCells[c])}
        \cup {UpdateTextStyleBold(p.startIndex, p.endIndex) :
            p \in {q \in ParagraphsOf(StyledHeaderCells[c]) : HasText(q)}}
        \cup {UpdateTableCellStyle("background", StyledTableStart, 0, c - 1)}
        : c \in 1..Len(StyledHeaderCells)}

\* C10 as amended: with headerRow, the header requests are, for every cell of
\* row 0 of the table found by the lookup, one center UpdateParagraphStyle per
\* paragraph, one bold UpdateTextStyle per text run whose trimmed content is
\* not empty (none for a cell without text) and one gray UpdateTableCellStyle
\* with rowIndex 0, and nothing else: every range lies inside a row-0 cell;
\* without headerRow there is no header request.
C10_HeaderRequestsOfRowZero ==
    FormattingBuilt =>
        IF req.headerRow
        THEN /\ {HeaderRequests[k] : k \in 1..Len(HeaderRequests)} = ExpectedHeaderRequests
             /\ Len(HeaderRequests) = Cardinality(ExpectedHeaderRequests)
             /\ \A k \in 1..Len(HeaderRequests) :
                  IF HeaderRequests[k].type = "updateTableCellStyle"
                  THEN HeaderRequests[k].rowIndex = 0
                  ELSE \E c \in 1..Len(StyledHeaderCells) :
                          Within(HeaderRequests[k], StyledHeaderCells[c])
        ELSE HeaderRequests = <<>>

\* a header over a table of two rows whose row 0 has a cell with text and a
\* cell without, formatted to the end
C10_Witness ==
    /\ FormattingBuilt /\ req.headerRow /\ pc = "done"
    /\ Len(RowsAt(RelocateSnapshot, StyledTableStart)) = 2
    /\ \E c \in 1..Len(StyledHeaderCells) :
           \E p \in ParagraphsOf(StyledHeaderCells[c]) : HasText(p)
    /\ \E c \in 1..Len(StyledHeaderCells) :
           \A p \in ParagraphsOf(StyledHeaderCells[c]) : ~HasText(p)

-----------------------------------------------------------------------------
(* insertTable: the formatting batch (C11). *)

\* the position in `calls` of the second snapshot read
RelocateCall == IF calls[4].call = "get" THEN 4 ELSE 5

\* the formatting of an insertTable was submitted
FormattingSubmitted == FormattingBuilt /\ pc \in {"done", "failed"}

\* C11 as stated: the border requests and the header requests go in two
\* batches, the header batch after the border batch, and the header batch is
\* submitted only when headerRow is true.
C11_BordersThenHeaderInTwoBatches ==
    FormattingSubmitted =>
        /\ calls[RelocateCall + 1].call = "batchUpdate"
        /\ calls[RelocateCall + 1].requests = BorderRequests
        /\ IF req.headerRow
           THEN /\ Len(calls) = RelocateCall + 2
                /\ calls[RelocateCall + 2].call = "batchUpdate"
                /\ calls[RelocateCall + 2].requests = HeaderRequests
           ELSE Len(calls) = RelocateCall + 1

\* C11 as amended: the border requests and the header requests go in ONE
\* batch, the only batch after the second snapshot read, the border requests
\* first and the header requests behind them; the batch holds header requests
\* exactly when headerRow is true.
C11_BordersThenHeaderInOneBatch ==
    FormattingSubmitted =>
        /\ Len(calls) = RelocateCall + 1
        /\ calls[RelocateCall + 1].call = "batchUpdate"
        /\ calls[RelocateCall + 1].requests = BorderRequests \o HeaderRequests
        /\ BorderRequests # <<>>
        /\ (HeaderRequests # <<>>) <=> req.headerRow

\* a table with a header row formatted to the end: borders and header sent
C11_Witness ==
    /\ FormattingSubmitted /\ pc = "done" /\ req.headerRow
    /\ Len(BorderRequests) >= 2 /\ Len(HeaderRequests) >= 3

-----------------------------------------------------------------------------
(* insertTable: the table is not found (C12). *)

\* the snapshot read after phase 1 shows no top-level table at or behind index + 1
NoTableInFirstSnapshot ==
    /\ req.op = "insertTable"
    /\ Len(calls) >= 3
    /\ \A k \in 1..Len(BodyContent(SnapshotOf(3))) :
           BodyContent(SnapshotOf(3))[k].kind = "table"
               => BodyContent(SnapshotOf(3))[k].startIndex < req.index + 1

\* C12: when the table is not found in the snapshot read after phase 1, the
\* request fails with an error, the snapshot read is its last backend call (no
\* batch of cell texts, borders or header follows) and the document keeps the
\* newline and the table of phase 1: nothing is undone.
C12_LocateFailureLeavesPhaseOne ==
    NoTableInFirstSnapshot =>
        /\ pc = "failed" /\ error # <<>>
        /\ Len(calls) = 3
        /\ doc = SnapshotOf(3)
        /\ doc[req.index] = NL
        /\ SubSeq(doc, req.index + 2, req.index + 1 + Len(NewTable(req.rows, req.columns)))
             = NewTable(req.rows, req.columns)

\* an insertTable whose table is not found: both batches of phase 1 applied
C12_Witness ==
    /\ NoTableInFirstSnapshot
    /\ calls[1].ok /\ calls[2].ok
    /\ pc = "failed"

-----------------------------------------------------------------------------
(* insertLink and appendText (C14, C15). *)

\* C14: insertLink submits one batch, [InsertText(index, text),
\* UpdateTextStyle(range [index, index + len(text)), link = url)], and once the
\* batch is applied the styled range holds exactly the text inserted.
C14_LinkRangeCoversInsertedText ==
    req.op = "insertLink" =>
        /\ calls = <<BatchCall(<<InsertText(req.index, req.text),
                                 UpdateTextStyleLink(req.index, req.index + Len(req.text),
                                                     req.url)>>,
                               pc = "done")>>
        /\ pc \in {"done", "failed"}
        /\ pc = "done" =>
             /\ SubSeq(doc, calls[1].requests[2].startIndex,
                       calls[1].requests[2].endIndex - 1) = req.text
             /\ req.index = 1 \/ doc[req.index - 1] \notin {"x", "y"}
             /\ doc[req.index + Len(req.text)] \notin {"x", "y"}

\* a link of three characters, a newline among them, inserted in the middle
\* of a paragraph
C14_Witness ==
    /\ req.op = "insertLink" /\ pc = "done"
    /\ Len(req.text) = 3
    /\ req.index > 1 /\ doc[req.index - 1] = "a" /\ doc[req.index + 3] = NL

\* C15: appendText reads one snapshot and submits one batch, a single
\* InsertText at documentEndIndex - 1 (the endIndex of the last top-level
\* element, less one); once applied the document is what it was with the text
\* placed before its final newline.
C15_AppendBeforeFinalNewline ==
    (req.op = "appendText" /\ pc \in {"done", "failed"}) =>
        /\ Len(calls) = 2
        /\ calls[1].call = "get"
        /\ calls[2] = BatchCall(<<InsertText(LastEndIndex(SnapshotOf(1)) - 1, req.text)>>,
                                pc = "done")
        /\ pc = "done"
        /\ doc = SubSeq(SnapshotOf(1), 1, Len(SnapshotOf(1)) - 1) \o req.text \o <<NL>>
        /\ readDocument(doc)
             = SubSeq(readDocument(SnapshotOf(1)), 1, Len(readDocument(SnapshotOf(1))) - 1)
               \o req.text \o <<NL>>

\* text appended to a document that ends with a table and a paragraph
C15_Witness ==
    /\ req.op = "appendText" /\ pc = "done"
    /\ Len(req.text) >= 2
    /\ \E k \in 1..Len(doc) : doc[k] = TableEnd

-----------------------------------------------------------------------------
(* Two requests on the same document. *)

\* the documents and the text of the second request
ConcurrentDocs == {Para(<<>>), Para(<<"a">>)}
OtherTexts == {<<"x">>}

InitConcurrent ==
    /\ doc \in ConcurrentDocs
    /\ pc = "idle"
    /\ req = [op |-> "none"]
    /\ calls = <<>>
    /\ requests = <<>>
    /\ tableStart = 0
    /\ cellInserts = <<>>
    /\ formattingRequests = <<>>
    /\ error = <<>>
    /\ failedAttempts = <<>>
    /\ other = [pc |-> "idle", requests |-> <<>>, snapshot |-> <<>>, readAfter |-> 0, after |-> 0]
    /\ result = [kind |-> "none"]
    /\ OtherPartsIdle

\* a second updateDocument, lines 568-598: it reads the snapshot and builds
\* its batch while the first request is under way
OtherUpdateDocumentRead ==
    /\ other.pc = "idle"
    /\ \E text \in OtherTexts :
         other' = [pc |-> "submit",
                   requests |-> updateDocumentRequests(BodyContent(doc), text),
                   snapshot |-> doc, readAfter |-> Len(calls), after |-> Len(calls)]
    /\ UNCHANGED <<doc, pc, req, calls, requests, tableStart, cellInserts,
                   formattingRequests, error, failedAttempts, result>>
    /\ UNCHANGED <<completed, cellScan, upload, authVars>>

\* the submission of the second request held back while the first request is
\* between a snapshot read and the batch built from it
OtherUpdateDocumentSubmitLocked ==
    /\ other.pc = "submit"
    /\ pc \notin {"insertTable_cells", "insertTable_format"}
    /\ LET res == BatchUpdate(doc, other.requests)
       IN  /\ doc' = res.doc
           /\ other' = [other EXCEPT !.pc = IF res.ok THEN "done" ELSE "failed",
                                     !.after = Len(calls)]
    /\ UNCHANGED <<pc, req, calls, requests, tableStart, cellInserts,
                   formattingRequests, error, failedAttempts, result>>
    /\ UNCHANGED <<completed, cellScan, upload, authVars>>

\* the second updateDocument, lines 600-605: its batch goes to the backend,
\* which applies it to the document as it is now
OtherUpdateDocumentSubmit ==
    /\ other.pc = "submit"
    /\ LET res == BatchUpdate(doc, other.requests)
       IN  /\ doc' = res.doc
           /\ other' = [other EXCEPT !.pc = IF res.ok THEN "done" ELSE "failed",
                                     !.after = Len(calls)]
    /\ UNCHANGED <<pc, req, calls, requests, tableStart, cellInserts,
                   formattingRequests, error, failedAttempts, result>>
    /\ UNCHANGED <<completed, cellScan, upload, authVars>>

NextConcurrent ==
    \/ InsertTableNewline
    \/ InsertTableTable
    \/ InsertTableLocate
    \/ InsertTableCells
    \/ InsertTableRelocate
    \/ InsertTableFormat
    \/ OtherUpdateDocumentRead
    \/ OtherUpdateDocumentSubmit

SpecConcurrent == InitConcurrent /\ [][NextConcurrent]_vars

-----------------------------------------------------------------------------
(* insertTable: the table is missing from the second snapshot (C13). *)

\* the second snapshot of an insertTable was read
SecondSnapshotRead ==
    /\ req.op = "insertTable" /\ tableStart # 0
    /\ Len(calls) >= 4 /\ Len(calls) >= RelocateCall
    /\ calls[RelocateCall].call = "get"

\* the second snapshot shows no top-level table at or behind index + 1
NoTableInSecondSnapshot ==
    /\ SecondSnapshotRead
    /\ \A k \in 1..Len(BodyContent(SnapshotOf(RelocateCall))) :
           BodyContent(SnapshotOf(RelocateCall))[k].kind = "table"
               => BodyContent(SnapshotOf(RelocateCall))[k].startIndex < req.index + 1

\* the formatting batch was submitted and accepted: it is the last call
FormattingCarriedOut ==
    /\ formattingRequests # <<>>
    /\ calls[Len(calls)] = BatchCall(formattingRequests, TRUE)

\* C13 as stated: insertTable ends in success only when its formatting was
\* carried out, and a table missing from the second snapshot ends the request
\* in failure.
C13_MissingTableFailsRequest ==
    /\ (req.op = "insertTable" /\ pc = "done") => FormattingCarriedOut
    /\ NoTableInSecondSnapshot => (pc = "failed" /\ error # <<>>)

\* C13 as amended: a table missing from the second snapshot ends the request
\* in SUCCESS, with no error and with no border or header request built or
\* submitted (the snapshot read is the last call); every other success of
\* insertTable has its formatting batch carried out.
C13_MissingTableEndsInSuccess ==
    /\ NoTableInSecondSnapshot =>
           /\ pc = "done" /\ error = <<>>
           /\ Len(calls) = RelocateCall
           /\ formattingRequests = <<>>
    /\ (req.op = "insertTable" /\ pc = "done") =>
           (FormattingCarriedOut \/ NoTableInSecondSnapshot)

\* the cell texts were inserted, then the table was gone from the second snapshot
C13_Witness ==
    /\ NoTableInSecondSnapshot
    /\ RelocateCall = 5 /\ calls[4].ok
    /\ pc = "done"

-----------------------------------------------------------------------------
(* Two requests on one document: no lock, no version token (C20). *)

\* the first request applied a batch between the read and the submission of
\* the second request
BatchAppliedSinceOtherRead ==
    \E k \in (other.readAfter + 1)..Min(other.after, Len(calls)) :
        calls[k].call = "batchUpdate" /\ calls[k].ok

\* C20: nothing holds a request back between its snapshot read and its batch:
\* whenever the second request has read its snapshot, its submission is
\* enabled whatever the first request has done since, the batch it submits is
\* the one built from the snapshot it read, and the cell-text batch of the
\* first request is enabled whatever the second request has done since the
\* first request's read.
C20_NoLockBetweenReadAndSubmit ==
    /\ other.pc = "submit" =>
           /\ ENABLED OtherUpdateDocumentSubmit
           /\ \E text \in OtherTexts :
                  other.requests = updateDocumentRequests(BodyContent(other.snapshot), text)
    /\ pc = "insertTable_cells" => ENABLED InsertTableCells

\* the second request deleted up to the end index of a snapshot that the
\* first request had outdated in between, and the backend applied the batch
C20_Witness ==
    /\ other.pc = "done"
    /\ Len(other.requests) = 2
    /\ BatchAppliedSinceOtherRead
    /\ doc # <<"x", NL>>

-----------------------------------------------------------------------------
(* Tool calls that fail: the CallTool handler of src/src/index.ts, backend   *)
(* calls that throw, and a caller that issues a failed insertTable again.    *)

FailureDocs == {Para(<<"a">>), Para(<<>>) \o TableOf(1, 1, <<>>) \o Para(<<>>)}

\* the text of an error of the backend that has nothing to do with the batch
BackendCauses == {"Error: network"}

\* what the handler can throw before it reaches a service method
HandlerErrors ==
    {"No arguments provided", "Unknown tool", "Services not initialized", "auth"}

InitFailures ==
    /\ doc \in FailureDocs
    /\ pc = "idle"
    /\ req = [op |-> "none"]
    /\ calls = <<>>
    /\ requests = <<>>
    /\ tableStart = 0
    /\ cellInserts = <<>>
    /\ formattingRequests = <<>>
    /\ error = <<>>
    /\ failedAttempts = <<>>
    /\ other = [pc |-> "idle", requests |-> <<>>, snapshot |-> <<>>, readAfter |-> 0, after |-> 0]
    /\ result = [kind |-> "none"]
    /\ OtherPartsIdle

\* the message of the catch block of the service method
FailureMessage(op) ==
    IF op = "insertTable" THEN "Failed to insert table" ELSE "Failed to update document"

\* the backend call the request is about to make
PendingCall ==
    CASE pc = "insertTable_table" ->
           BatchCall(tableRequests(req.index, req.rows, req.columns), FALSE)
      [] pc = "insertTable_cells" -> BatchCall(insertRequests(cellInserts), FALSE)
      [] pc = "insertTable_format" -> BatchCall(formattingRequests, FALSE)
      [] pc = "updateDocument_submit" -> BatchCall(requests, FALSE)
      [] OTHER -> [call |-> "get", ok |-> FALSE]

\* a catch block that adds the place of the failure to the message
BackendFaultNamingPhase ==
    /\ pc \in {"updateDocument_submit", "insertTable_table", "insertTable_locate",
               "insertTable_cells", "insertTable_relocate", "insertTable_format"}
    /\ \E cause \in BackendCauses :
         /\ calls' = Append(calls, [cause |-> cause] @@ PendingCall)
         /\ error' = <<FailureMessage(req.op), pc, cause>>
    /\ pc' = "failed"
    /\ UNCHANGED <<doc, req, requests, tableStart, cellInserts, formattingRequests,
                   failedAttempts, other, result>>
    /\ UNCHANGED <<completed, cellScan, upload, authVars>>

\* a backend call of the request throws (network, quota, server error): the
\* catch block of the method wraps the error and rethrows, lines 973-975 and
\* 606-608
BackendFault ==
    /\ pc \in {"updateDocument_submit", "insertTable_table", "insertTable_locate",
               "insertTable_cells", "insertTable_relocate", "insertTable_format"}
    /\ \E cause \in BackendCauses :
         /\ calls' = Append(calls, [cause |-> cause] @@ PendingCall)
         /\ error' = <<FailureMessage(req.op), cause>>
    /\ pc' = "failed"
    /\ UNCHANGED <<doc, req, requests, tableStart, cellInserts, formattingRequests,
                   failedAttempts, other, result>>
    /\ UNCHANGED <<completed, cellScan, upload, authVars>>

\* index.ts lines 113-122 and 500-501: the handler throws before any service
\* method runs (authentication, services, arguments, tool name)
CallToolRejected ==
    /\ pc = "idle" /\ result.kind = "none"
    /\ \E why \in HandlerErrors :
         /\ req' = [op |-> "rejected", why |-> why]
         /\ error' = <<why>>
    /\ pc' = "failed"
    /\ UNCHANGED <<doc, calls, requests, tableStart, cellInserts, formattingRequests,
                   failedAttempts, other, result>>
    /\ UNCHANGED <<completed, cellScan, upload, authVars>>

\* the result of lines 505-516: the catch block of the handler
CallToolError(thrown) == [kind |-> "result", isError |-> TRUE, text |-> <<"Error: ">> \o thrown]

\* the result of the case of the tool, lines 163-170 and 265-272
CallToolSuccess(op) ==
    [kind |-> "result", isError |-> FALSE,
     text |-> <<IF op = "insertTable" THEN "Table inserted successfully!"
                ELSE "Document updated successfully!">>]

\* a handler whose catch block returns the text without the error flag
CallToolReturnUnflagged ==
    /\ pc \in {"done", "failed"}
    /\ result' = IF pc = "failed"
                 THEN [CallToolError(error) EXCEPT !.isError = FALSE]
                 ELSE CallToolSuccess(req.op)
    /\ pc' = "returned"
    /\ UNCHANGED <<doc, req, calls, requests, tableStart, cellInserts,
                   formattingRequests, error, failedAttempts, other>>
    /\ UNCHANGED <<completed, cellScan, upload, authVars>>

\* index.ts lines 163-170, 265-272, 505-516: the handler returns to the transport
CallToolReturn ==
    /\ pc \in {"done", "failed"}
    /\ result' = IF pc = "failed" THEN CallToolError(error) ELSE CallToolSuccess(req.op)
    /\ pc' = "returned"
    /\ UNCHANGED <<doc, req, calls, requests, tableStart, cellInserts,
                   formattingRequests, error, failedAttempts, other>>
    /\ UNCHANGED <<completed, cellScan, upload, authVars>>

\* the caller issues a failed insertTable again, with the same arguments:
\* lines 731-743 on the document the failed attempt left
RetryInsertTable ==
    /\ pc = "returned" /\ result.isError /\ req.op = "insertTable"
    /\ Len(failedAttempts) < MaxRetries
    /\ failedAttempts' = Append(failedAttempts,
                                [phase |-> Len(calls), error |-> error, text |-> result.text])
    /\ LET res == BatchUpdate(doc, newlineRequests(req.index))
       IN  /\ doc' = res.doc
           /\ calls' = <<BatchCall(newlineRequests(req.index), res.ok)>>
           /\ pc' = IF res.ok THEN "insertTable_table" ELSE "failed"
           /\ error' = IF res.ok THEN <<>> ELSE <<"Failed to insert table", InvalidRequests>>
    /\ result' = [kind |-> "none"]
    /\ tableStart' = 0
    /\ cellInserts' = <<>>
    /\ formattingRequests' = <<>>
    /\ UNCHANGED <<req, requests, other>>
    /\ UNCHANGED <<completed, cellScan, upload, authVars>>

NextFailures ==
    \/ UpdateDocumentRead
    \/ UpdateDocumentSubmit
    \/ InsertTableNewline
    \/ InsertTableTable
    \/ InsertTableLocate
    \/ InsertTableCells
    \/ InsertTableRelocate
    \/ InsertTableFormat
    \/ BackendFault
    \/ CallToolRejected
    \/ CallToolReturn
    \/ RetryInsertTable

SpecFailures == InitFailures /\ [][NextFailures]_vars

-----------------------------------------------------------------------------
(* Failures: one call at a time, no retry inside the engine (C16). *)

\* the k-th backend call of the request returned normally
CallSucceeded(k) ==
    IF calls[k].call = "batchUpdate" THEN calls[k].ok ELSE "snapshot" \in DOMAIN calls[k]

\* C16: the backend calls of a request are made one after the other and
\* every call but the last one has succeeded: no call follows a failed call
\* (no retry of it, no later phase), and a request whose last call failed is
\* failed and carries the error; a request makes at most six calls.
C16_NoCallAfterFailedCall ==
    req.op \in {"insertTable", "updateDocument"} =>
        /\ \A k \in 1..(Len(calls) - 1) : CallSucceeded(k)
        /\ (Len(calls) >= 1 /\ ~CallSucceeded(Len(calls)))
               => (pc \in {"failed", "returned"} /\ error # <<>>)
        /\ pc \in {"failed", "returned"} /\ error # <<>> /\ Len(calls) >= 1
               /\ CallSucceeded(Len(calls))
               => (calls[Len(calls)].call = "get" /\ error[2] = TableNotFound)
        /\ Len(calls) <= 6

\* the batch of cell texts of an insertTable failed: it is the last call
C16_Witness ==
    /\ req.op = "insertTable" /\ pc = "failed"
    /\ Len(calls) = 4 /\ calls[4].call = "batchUpdate" /\ ~calls[4].ok

-----------------------------------------------------------------------------
(* Failures: what the error tells the caller (C17). *)

\* an insertTable issued again has failed again and the handler has returned
FailedAgain ==
    /\ req.op = "insertTable" /\ pc = "returned" /\ result.isError
    /\ Len(failedAttempts) >= 1

\* C17 as stated: the failure names the phase, so two failures of the same
\* insertTable raised in different phases reach the caller as different texts.
C17_FailuresOfDifferentPhasesDiffer ==
    FailedAgain =>
        (failedAttempts[1].phase # Len(calls) => failedAttempts[1].text # result.text)

\* C17 as amended: a failure of insertTable carries the operation ("Failed to
\* insert table") and the text of the underlying error, and nothing else,
\* neither the phase nor the document: the underlying error is the backend's
\* own, or "Failed to find the inserted table in document" when the first
\* lookup fails; two failures with the same underlying error reach the caller
\* as the same text, whatever the phases that raised them.
C17_FailureCarriesOperationAndCause ==
    /\ (req.op = "insertTable" /\ error # <<>>) =>
           /\ Len(error) = 2
           /\ error[1] = "Failed to insert table"
           /\ error[2] = (IF CallSucceeded(Len(calls)) THEN TableNotFound
                          ELSE IF "cause" \in DOMAIN calls[Len(calls)]
                               THEN calls[Len(calls)].cause
                               ELSE InvalidRequests)
    /\ FailedAgain =>
           (failedAttempts[1].error[2] = error[2] => failedAttempts[1].text = result.text)

\* the same insertTable failed in two different phases with the same text
C17_Witness ==
    /\ FailedAgain
    /\ failedAttempts[1].phase = 2 /\ Len(calls) = 6
    /\ failedAttempts[1].text = result.text

-----------------------------------------------------------------------------
(* Failures: the result of the tool call (C18). *)

\* C18: a tool call that failed (service error, unknown tool, missing
\* arguments, failed authentication) returns a result with isError = TRUE and
\* a text that starts with "Error: " and goes on with the message of the
\* error; a result without the error flag is returned only when no error was
\* thrown and every backend call of the service method succeeded.
C18_FailedCallReturnsErrorResult ==
    pc = "returned" =>
        /\ result.kind = "result"
        /\ result.isError <=> error # <<>>
        /\ result.isError => (Head(result.text) = "Error: " /\ Tail(result.text) = error)
        /\ ~result.isError =>
               /\ req.op \in {"insertTable", "updateDocument"}
               /\ \A k \in 1..Len(calls) : CallSucceeded(k)
        /\ (req.op = "rejected" \/ \E k \in 1..Len(calls) : ~CallSucceeded(k))
               => result.isError

\* an insertTable that failed at its formatting batch and was answered
C18_Witness ==
    /\ pc = "returned" /\ result.isError
    /\ req.op = "insertTable" /\ Len(calls) = 6

-----------------------------------------------------------------------------
(* A failed insertTable issued again (C19). *)

\* C19: when an insertTable that failed after its first batch was applied is
\* issued again with the same arguments, the new attempt does not fail for a
\* table that is not found, and the table it finds is the one it inserted
\* itself, which starts at index + 2.
C19_RetryFillsItsOwnTable ==
    (req.op = "insertTable" /\ Len(failedAttempts) >= 1 /\ failedAttempts[1].phase >= 2) =>
        /\ ~(error # <<>> /\ error[2] = TableNotFound)
        /\ tableStart # 0 => tableStart = req.index + 2

-----------------------------------------------------------------------------
(* insertTable: which table the lookups find (C23). *)

\* C23: with no other request at work, the first lookup of insertTable (the
\* first top-level table with startIndex >= index + 1) finds a table, and the
\* table it finds is the one the request inserted in its first phase, which
\* starts at index + 2 and has rows x columns empty cells; the second lookup
\* finds the same table.
C23_LookupFindsInsertedTable ==
    (req.op = "insertTable" /\ Len(calls) >= 3 /\ calls[3].call = "get") =>
        /\ ~(pc = "failed" /\ error # <<>> /\ error[2] = TableNotFound)
        /\ tableStart = req.index + 2
        /\ FreshTableLocated
        /\ FormattingBuilt => StyledTableStart = req.index + 2

-----------------------------------------------------------------------------
(* insertTable: the snapshot every index comes from (C24). *)

\* the table the lookup of lines 767-773 finds in document d
LookedUpIn(d) == BodyContent(d)[FindTable(BodyContent(d), tableIndex(req.index))]

\* the cell inserts of lines 781-809, read from document d
CellInsertsOf(d) == sortCellInserts(collectCellInserts(LookedUpIn(d), req.data, req.headerRow))

\* the formatting requests of lines 844-964, read from document d
FormattingOf(d) == buildFormattingRequests(LookedUpIn(d), req.columns, req.headerRow)

\* C24: within one insertTable, with no other request at work, the indices of
\* a batch to submit (cell insertion points, table start index, header
\* paragraph and text-run ranges) are those read from a snapshot that equals
\* the document as it is when the batch is submitted; every batch submitted
\* after the table batch follows a snapshot read directly and holds the
\* indices of that snapshot.
C24_IndicesFromLatestSnapshot ==
    req.op = "insertTable" =>
        /\ pc = "insertTable_cells" =>
               /\ calls[Len(calls)] = GetCall(doc)
               /\ tableStart = LookedUpIn(doc).startIndex
               /\ cellInserts = CellInsertsOf(doc)
        /\ pc = "insertTable_format" =>
               /\ calls[Len(calls)] = GetCall(doc)
               /\ formattingRequests = FormattingOf(doc)
        /\ \A k \in 3..Len(calls) :
               calls[k].call = "batchUpdate" =>
                   /\ calls[k - 1].call = "get"
                   /\ \/ calls[k].requests = insertRequests(CellInsertsOf(SnapshotOf(k - 1)))
                      \/ calls[k].requests = FormattingOf(SnapshotOf(k - 1))

\* a request that put text in its header cells and then made the text bold:
\* the ranges of the bold requests exist in the second snapshot only
C24_Witness ==
    /\ req.op = "insertTable"
    /\ pc = "done"
    /\ Len(calls) = 6
    /\ calls[4].call = "batchUpdate" /\ calls[4].ok
    /\ calls[6].ok
    /\ \E k \in 1..Len(calls[6].requests) : calls[6].requests[k].type = "updateTextStyle"
    /\ calls[6].requests # FormattingOf(SnapshotOf(3))

-----------------------------------------------------------------------------
(* insertTable: the cell texts leave the table where it is (C25). *)

\* the cell-text batch was applied and the second lookup found a table
PopulatedAndRelocated ==
    /\ CellsBatchSubmitted
    /\ calls[4].ok
    /\ FormattingBuilt

\* C25: with no other request at work, every insertion point of the cell-text
\* batch lies behind the start of the table found by the first lookup, the
\* second lookup finds a table at the same start index, and every
\* UpdateTableCellStyle of the request carries that start index: it addresses
\* the table the cell texts went into.
C25_CellTextsDoNotMoveTable ==
    /\ CellsBatchSubmitted =>
           \A k \in 1..Len(calls[4].requests) : calls[4].requests[k].index > tableStart
    /\ PopulatedAndRelocated =>
           /\ LookedUpIn(SnapshotOf(5)).startIndex = tableStart
           /\ \A k \in 1..Len(formattingRequests) :
                  formattingRequests[k].type = "updateTableCellStyle" =>
                      formattingRequests[k].tableStartIndex = tableStart

\* a table whose cells were filled, found again and given its borders
C25_Witness ==
    /\ PopulatedAndRelocated
    /\ pc = "done"
    /\ Len(calls[4].requests) >= 2
    /\ Len(BorderRequests) >= 2

-----------------------------------------------------------------------------
(* readDocument and the text in tables (C29). *)

IsText(t) == t \notin Markers

\* every character of every text run of d in document order, the text of the
\* table cells included
AllText(d) == SelectSeq(d, IsText)

\* C29: after an insertTable that filled its cells and went through,
\* readDocument returns the whole text of the document: every text run in
\* document order, the text of the table cells included.
C29_ReadReturnsAllText ==
    (CellsBatchSubmitted /\ calls[4].ok /\ pc = "done") => readDocument(doc) = AllText(doc)

-----------------------------------------------------------------------------
(* The ranges of the requests (C27). *)

\* the request addresses a range of characters
HasRange(q) == q.type \in {"deleteContentRange", "updateParagraphStyle", "updateTextStyle"}

\* C27: every range in a batch the service submits is non-empty, startIndex <
\* endIndex: the delete range of updateDocument, the link range of insertLink
\* and the paragraph and text-run ranges of the header of insertTable.
C27_EveryRangeNonEmpty ==
    \A k \in 1..Len(calls) :
        calls[k].call = "batchUpdate" =>
            \A j \in 1..Len(calls[k].requests) :
                HasRange(calls[k].requests[j]) =>
                    calls[k].requests[j].startIndex < calls[k].requests[j].endIndex

-----------------------------------------------------------------------------
(* updateDocument run again on its own result (C28). *)

\* updateDocument called again with the same text once the run before it has
\* returned: lines 568-598 on a snapshot of its own
UpdateDocumentAgain ==
    /\ pc \in {"done", "failed"}
    /\ req.op = "updateDocument"
    /\ Len(completed) < MaxRepeats
    /\ completed' = Append(completed, doc)
    /\ requests' = updateDocumentRequests(BodyContent(doc), req.text)
    /\ calls' = Append(calls, GetCall(doc))
    /\ pc' = "updateDocument_submit"
    /\ error' = <<>>
    /\ UNCHANGED <<doc, req, tableStart, cellInserts, formattingRequests>>
    /\ UNCHANGED <<failedAttempts, other, result>>
    /\ UNCHANGED <<cellScan, upload, authVars>>

NextRepeat ==
    \/ UpdateDocumentRead
    \/ UpdateDocumentSubmit
    \/ UpdateDocumentAgain

SpecRepeat == Init /\ [][NextRepeat]_vars

\* a run of updateDocument that followed a completed one has returned
RanAgain ==
    /\ req.op = "updateDocument"
    /\ pc \in {"done", "failed"}
    /\ Len(completed) >= 1

\* C28: updateDocument(d, X) run again with the same X, on a snapshot of its
\* own, leaves the document as the run before it left it: the same content
\* and the same end index.
C28_SecondRunChangesNothing ==
    RanAgain =>
        /\ doc = completed[Len(completed)]
        /\ LastEndIndex(doc) = LastEndIndex(completed[Len(completed)])

\* the first run replaced the content of a document that held a table, and the
\* second run deleted the text of the first and inserted it again
C28_Witness ==
    /\ RanAgain
    /\ pc = "done"
    /\ completed[1] # SnapshotOf(1)
    /\ \E j \in 1..Len(SnapshotOf(1)) : SnapshotOf(1)[j] = TableStart
    /\ calls[4].ok
    /\ calls[4].requests[1].type = "deleteContentRange"

-----------------------------------------------------------------------------
(* The visit of the cells on tables whose cells may hold no paragraph (C26). *)

\* the document service with no request in flight
NoRequest ==
    /\ doc = Para(<<>>)
    /\ pc = "idle"
    /\ req = [op |-> "none"]
    /\ calls = <<>>
    /\ requests = <<>>
    /\ tableStart = 0
    /\ cellInserts = <<>>
    /\ formattingRequests = <<>>
    /\ error = <<>>
    /\ failedAttempts = <<>>
    /\ other = [pc |-> "idle", requests |-> <<>>, snapshot |-> <<>>, readAfter |-> 0, after |-> 0]
    /\ result = [kind |-> "none"]

\* a fresh rows x columns table as documents.get returns it, behind one paragraph
FreshTableElement(rows, columns) ==
    BodyContent(Para(<<>>) \o NewTable(rows, columns) \o Para(<<>>))[2]

\* the table with the content of the cells at `missing` left out of the
\* response (line 793: cell.content || [])
WithoutContent(table, missing) ==
    [table EXCEPT !.tableRows =
        [r \in 1..Len(table.tableRows) |->
            [table.tableRows[r] EXCEPT !.tableCells =
                [c \in 1..Len(table.tableRows[r].tableCells) |->
                    IF <<r, c>> \in missing
                    THEN [table.tableRows[r].tableCells[c] EXCEPT !.content = <<>>]
                    ELSE table.tableRows[r].tableCells[c]]]]]

\* the tables, data and header flags the visit is tried on
ScanInputs ==
    {[table |-> WithoutContent(FreshTableElement(rows, columns), missing),
      data |-> data, headerRow |-> headerRow] :
        rows \in 1..MaxRows, columns \in 1..MaxCols,
        missing \in SUBSET ((1..MaxRows) \X (1..MaxCols)),
        data \in DataSets, headerRow \in BOOLEAN}

InitCellScan ==
    /\ NoRequest
    /\ completed = <<>>
    /\ upload = [pc |-> "idle"]
    /\ ServerConstructed
    /\ files = [credentials |-> TRUE, token |-> TRUE]
    /\ \E input \in ScanInputs : cellScan = [pc |-> "table"] @@ input

\* the visit with a throw for a cell that has a non-empty entry and no paragraph
CollectCellInsertsOrThrow ==
    /\ cellScan.pc = "table"
    /\ LET t == cellScan.table
           d == cellScan.data
           unfilled ==
               \E r \in 1..Len(t.tableRows) : \E c \in 1..Len(t.tableRows[r].tableCells) :
                   /\ r <= Len(d) /\ c <= Len(d[r]) /\ Len(d[r][c]) > 0
                   /\ FirstParagraphFrom(t.tableRows[r].tableCells[c].content, 1) = 0
       IN  cellScan' = [cellScan EXCEPT !.pc = IF unfilled THEN "failed" ELSE "sort"]
                       @@ [cellInserts |-> collectCellInserts(t, d, cellScan.headerRow),
                           error |-> IF unfilled
                                     THEN <<"Failed to insert table", "Error: no paragraph in cell">>
                                     ELSE <<>>]
    /\ UNCHANGED <<docVars, completed, upload, authVars>>

\* lines 781-806 on the table found: the visit collects the inserts and goes
\* on to the sort of line 809; nothing in it throws
CollectCellInserts ==
    /\ cellScan.pc = "table"
    /\ cellScan' = [cellScan EXCEPT !.pc = "sort"]
                   @@ [cellInserts |-> collectCellInserts(cellScan.table, cellScan.data,
                                                          cellScan.headerRow),
                       error |-> <<>>]
    /\ UNCHANGED <<docVars, completed, upload, authVars>>

NextCellScan == CollectCellInserts

SpecCellScan == InitCellScan /\ [][NextCellScan]_vars

\* the cells the loops of lines 784 and 788 reach that have a non-empty entry
EntriesToFill ==
    {rc \in (1..Len(cellScan.table.tableRows)) \X (1..MaxCols) :
        /\ rc[1] <= Len(cellScan.data)
        /\ rc[2] <= Len(cellScan.table.tableRows[rc[1]].tableCells)
        /\ rc[2] <= Len(cellScan.data[rc[1]])
        /\ Len(cellScan.data[rc[1]][rc[2]]) > 0}

ScannedCell(rc) == cellScan.table.tableRows[rc[1]].tableCells[rc[2]]

HoldsParagraph(cell) == \E k \in 1..Len(cell.content) : cell.content[k].kind = "paragraph"

\* the inserts the visit recorded for the cell
InsertsWithin(cell) ==
    {k \in 1..Len(cellScan.cellInserts) :
        /\ cell.startIndex < cellScan.cellInserts[k].index
        /\ cellScan.cellInserts[k].index < cell.endIndex}

-----------------------------------------------------------------------------
(* DriveUploadHelper: the check of the path of a local file (C30). *)

(* A path is a record: whether it starts at the root, and its segments, each  *)
(* a sequence of characters.  path.resolve turns it into a string, a sequence *)
(* of characters with "/" between the segments.                               *)

Slash == "/"
Dot == <<".">>
DotDot == <<".", ".">>

\* process.cwd(), as segments
Cwd == <<<<"w">>>>

\* the names tried as segments of a path
SegmentNames == {Dot, DotDot, <<"b">>, <<"b", "2">>, <<"f">>}

RECURSIVE Normalize(_, _)
\* path.resolve: "." is dropped, ".." drops the segment before it (none at the root)
Normalize(done, rest) ==
    IF rest = <<>> THEN done
    ELSE IF Head(rest) = Dot THEN Normalize(done, Tail(rest))
    ELSE IF Head(rest) = DotDot
         THEN Normalize(IF done = <<>> THEN <<>> ELSE SubSeq(done, 1, Len(done) - 1), Tail(rest))
         ELSE Normalize(Append(done, Head(rest)), Tail(rest))

\* the absolute path of the segments as a string, with no slash at its end
PathString(segments) ==
    IF segments = <<>> THEN <<Slash>>
    ELSE Flatten([k \in 1..Len(segments) |-> <<Slash>> \o segments[k]])

\* path.resolve(p): a relative path is resolved against process.cwd()
pathResolve(p) ==
    PathString(Normalize(IF p.absolute THEN <<>> ELSE Cwd, p.segments))

\* String.prototype.startsWith
startsWith(str, prefix) ==
    Len(prefix) <= Len(str) /\ SubSeq(str, 1, Len(prefix)) = prefix

\* the files and directories on disk (fs.existsSync, fs.statSync)
ExistingFiles == {PathString(<<<<"b">>, <<"f">>>>), PathString(<<<<"b", "2">>, <<"f">>>>),
                  PathString(<<<<"w">>, <<"f">>>>), PathString(<<<<"f">>>>)}
ExistingDirs == {PathString(<<>>), PathString(<<<<"b">>>>), PathString(<<<<"b", "2">>>>),
                 PathString(<<<<"w">>>>)}

AccessDenied == "Invalid file path: access denied (outside allowed directory)"
FileNotFound == "File not found"
NotAFile == "Path is not a file"

\* the paths tried as filePath
FilePaths ==
    {[absolute |-> a, segments |-> segs] :
        a \in BOOLEAN,
        segs \in UNION {[1..n -> SegmentNames] : n \in 1..MaxSegments}}

\* the values tried as allowedBaseDir: undefined, or a directory
NoBaseDir == [given |-> FALSE]
BaseDirs ==
    {NoBaseDir}
    \cup {[given |-> TRUE, absolute |-> TRUE, segments |-> segs] :
             segs \in {<<>>, <<<<"b">>>>, <<<<"w">>, DotDot, <<"b">>>>}}
    \cup {[given |-> TRUE, absolute |-> FALSE, segments |-> <<DotDot, <<"b">>>>]}

InitUpload ==
    /\ NoRequest
    /\ completed = <<>>
    /\ cellScan = [pc |-> "idle"]
    /\ ServerConstructed
    /\ files = [credentials |-> TRUE, token |-> TRUE]
    /\ \E filePath \in FilePaths, allowedBaseDir \in BaseDirs :
           upload = [pc |-> "validate", filePath |-> filePath,
                     allowedBaseDir |-> allowedBaseDir, resolvedPath |-> <<>>,
                     uploaded |-> <<>>, error |-> ""]

\* line 30: resolvedPath.startsWith(resolvedBase)
insideBase(resolvedPath, resolvedBase) == startsWith(resolvedPath, resolvedBase)

\* validateFilePath, lines 23-47, called at line 83; a throw goes to the catch
\* of lines 113-115
ValidateFilePath ==
    /\ upload.pc = "validate"
    /\ LET resolvedPath == pathResolve(upload.filePath)
           denied == /\ upload.allowedBaseDir.given
                     /\ ~insideBase(resolvedPath, pathResolve(upload.allowedBaseDir))
           thrown == IF denied THEN AccessDenied
                     ELSE IF resolvedPath \notin ExistingFiles \cup ExistingDirs THEN FileNotFound
                     ELSE IF resolvedPath \notin ExistingFiles THEN NotAFile
                     ELSE ""
       IN  upload' = [upload EXCEPT !.resolvedPath = resolvedPath,
                                    !.error = thrown,
                                    !.pc = IF thrown = "" THEN "create" ELSE "failed"]
    /\ UNCHANGED <<docVars, completed, cellScan, authVars>>

\* lines 88-98: drive.files.create with a read stream of the validated path
UploadCreate ==
    /\ upload.pc = "create"
    /\ upload' = [upload EXCEPT !.uploaded = upload.resolvedPath, !.pc = "permissions"]
    /\ UNCHANGED <<docVars, completed, cellScan, authVars>>

\* lines 103-112: the file is made readable by anyone and its URL is returned
UploadMakePublic ==
    /\ upload.pc = "permissions"
    /\ upload' = [upload EXCEPT !.pc = "returned"]
    /\ UNCHANGED <<docVars, completed, cellScan, authVars>>

NextUpload ==
    \/ ValidateFilePath
    \/ UploadCreate
    \/ UploadMakePublic

SpecUpload == InitUpload /\ [][NextUpload]_vars

\* the resolved path is the resolved base directory or lies below it
LiesInside(resolvedPath, resolvedBase) ==
    \/ resolvedBase = <<Slash>>
    \/ resolvedPath = resolvedBase
    \/ /\ Len(resolvedPath) > Len(resolvedBase)
       /\ SubSeq(resolvedPath, 1, Len(resolvedBase)) = resolvedBase
       /\ resolvedPath[Len(resolvedBase) + 1] = Slash

\* C30: with an allowedBaseDir, validateFilePath lets a path through only if
\* the resolved path is the resolved base directory or lies below it; every
\* path that resolves outside it, a sibling whose name starts with the name of
\* the base directory included, ends in the access-denied error and nothing of
\* it is uploaded.
C30_OnlyPathsInsideBaseAccepted ==
    (upload.pc \notin {"idle", "validate"} /\ upload.allowedBaseDir.given) =>
        IF LiesInside(upload.resolvedPath, pathResolve(upload.allowedBaseDir))
        THEN upload.error # AccessDenied
        ELSE upload.error = AccessDenied /\ upload.uploaded = <<>>

-----------------------------------------------------------------------------
(* The lazy initialisation of the server and the authenticated client       *)
(* (index.ts lines 54-74 and 111-115, GoogleAuthService lines 32-110).      *)
(* Several CallTool handlers may be in flight; each gives way to the others *)
(* at its awaits.                                                           *)

CredentialsNotFound == "credentials.json not found. Please download it from Google Cloud Console."
AuthorizationRequired == "Please run the authentication flow first. See the authorization URL above."
NoAccessToken == "No access, refresh token, API key or refresh handler callback is set."

InitAuth ==
    /\ NoRequest
    /\ completed = <<>>
    /\ cellScan = [pc |-> "idle"]
    /\ upload = [pc |-> "idle"]
    /\ ServerConstructed
    /\ files \in [credentials : BOOLEAN, token : BOOLEAN]

\* the handler receives the client cached in the authentication service
Receive(h, next) ==
    [handlers EXCEPT ![h].pc = next,
                     ![h].authClient = oAuth2Client,
                     ![h].credentialed = clients[oAuth2Client].credentials]

\* index.ts lines 114 and 55-59, part_008 lines 33-38: the handler starts,
\* initializeServices tests documentService and getAuthenticatedClient tests
\* its cached client, up to the first await
CallToolStart(h) ==
    /\ handlers[h].pc = "idle"
    /\ IF services.documentService # 0
       THEN handlers' = [handlers EXCEPT ![h].pc = "initialized"]
       ELSE IF oAuth2Client # 0
            THEN handlers' = Receive(h, "gotClient")
            ELSE handlers' = [handlers EXCEPT ![h].pc = "loadCredentials"]
    /\ UNCHANGED <<docVars, completed, cellScan, upload, oAuth2Client, clients, services, files>>

\* part_008 lines 38-49 and 75-84: credentials.json has been read; the client
\* is created and stored, and the token file is read
LoadCredentialsDone(h) ==
    /\ handlers[h].pc = "loadCredentials"
    /\ IF files.credentials
       THEN /\ clients' = Append(clients, [credentials |-> FALSE, obtained |-> FALSE,
                                           setAfterObtained |-> FALSE])
            /\ oAuth2Client' = Len(clients) + 1
            /\ handlers' = [handlers EXCEPT ![h].pc = "readToken"]
       ELSE /\ handlers' = [handlers EXCEPT ![h].pc = "failed",
                                            ![h].error = CredentialsNotFound]
            /\ UNCHANGED <<clients, oAuth2Client>>
    /\ UNCHANGED <<docVars, completed, cellScan, upload, services, files>>

\* part_008 lines 48-56 and 90-110: the token file has been read; the
\* credentials are set on this.oAuth2Client, which is returned; without a token
\* generateNewToken throws
ReadTokenDone(h) ==
    /\ handlers[h].pc = "readToken"
    /\ IF files.token
       THEN /\ clients' = [clients EXCEPT
                              ![oAuth2Client].credentials = TRUE,
                              ![oAuth2Client].setAfterObtained =
                                  @ \/ clients[oAuth2Client].obtained,
                              ![oAuth2Client].obtained = TRUE]
            /\ handlers' = [handlers EXCEPT ![h].pc = "gotClient",
                                            ![h].authClient = oAuth2Client,
                                            ![h].credentialed = TRUE]
       ELSE /\ handlers' = [handlers EXCEPT ![h].pc = "failed",
                                            ![h].error = AuthorizationRequired]
            /\ UNCHANGED clients
    /\ UNCHANGED <<docVars, completed, cellScan, upload, oAuth2Client, services, files>>

\* index.ts lines 59-62: the three services are constructed with the client
\* the handler received
ConstructServices(h) ==
    /\ handlers[h].pc = "gotClient"
    /\ services' = [documentService |-> handlers[h].authClient,
                    sheetService |-> handlers[h].authClient,
                    slideService |-> handlers[h].authClient]
    /\ clients' = [clients EXCEPT ![handlers[h].authClient].obtained = TRUE]
    /\ handlers' = [handlers EXCEPT ![h].pc = "initialized", ![h].built = TRUE]
    /\ UNCHANGED <<docVars, completed, cellScan, upload, oAuth2Client, files>>

\* index.ts lines 115-125: the services are there, the tool is routed to its
\* service, which issues its backend call with the client it was built with
ToolCall(h) ==
    /\ handlers[h].pc = "initialized"
    /\ handlers' = [handlers EXCEPT
                       ![h].pc = "backend",
                       ![h].call = <<[client |-> services.documentService,
                                      credentials |->
                                          clients[services.documentService].credentials]>>]
    /\ UNCHANGED <<docVars, completed, cellScan, upload, oAuth2Client, clients, services, files>>

\* the backend call returns: a call made without credentials is refused
BackendReturn(h) ==
    /\ handlers[h].pc = "backend"
    /\ handlers' = [handlers EXCEPT
                       ![h].pc = IF handlers[h].call[1].credentials THEN "returned" ELSE "failed",
                       ![h].error = IF handlers[h].call[1].credentials THEN "" ELSE NoAccessToken]
    /\ UNCHANGED <<docVars, completed, cellScan, upload, oAuth2Client, clients, services, files>>

NextAuth ==
    \E h \in Handlers :
        \/ CallToolStart(h)
        \/ LoadCredentialsDone(h)
        \/ ReadTokenDone(h)
        \/ ConstructServices(h)
        \/ ToolCall(h)
        \/ BackendReturn(h)

SpecAuth == InitAuth /\ [][NextAuth]_vars

\* the handlers that received the authenticated client
Received == {h \in Handlers : handlers[h].authClient # 0}

\* C21: with credentials.json and a valid token.json on disk, however the
\* handlers interleave, one client is created at most and the three services
\* are constructed once at most; every handler that receives the client
\* receives the same one, with its credentials set, and no credentials are
\* set on a client a handler has already received.
C21_OneClientOneConstruction ==
    (files.credentials /\ files.token) =>
        /\ Len(clients) <= 1
        /\ Cardinality({h \in Handlers : handlers[h].built}) <= 1
        /\ \A g \in Received, h \in Received : handlers[g].authClient = handlers[h].authClient
        /\ \A h \in Received : handlers[h].credentialed
        /\ \A c \in 1..Len(clients) : ~clients[c].setAfterObtained

\* C22: as long as token.json holds no valid credential, every tool call fails
\* with the authentication error, the first and the later ones alike: no
\* handler receives a client and none reaches a backend call.
C22_NoClientWithoutCredential ==
    ~files.token =>
        \A h \in Handlers :
            /\ handlers[h].authClient = 0
            /\ handlers[h].call = <<>>
            /\ handlers[h].pc \in {"idle", "loadCredentials", "readToken", "failed"}
            /\ handlers[h].pc = "failed" =>
                   handlers[h].error \in {AuthorizationRequired, CredentialsNotFound}

=============================================================================
